---- MODULE Spec2Model ----
(***************************************************************************)
(* git-context: named git identity profiles, the YAML-backed profile store *)
(* (package config) and the git-config text codec (package git).           *)
(*                                                                         *)
(* Go values of type `any` are tagged records [t, v]; a Go map[string]any  *)
(* is a function from key strings to such values.  A nil map and an empty  *)
(* map are the same to len, range and index, the only operations the code  *)
(* applies to them, and both are the empty function <<>>.  A nil slice and *)
(* an empty slice are both the empty sequence.                             *)
(***************************************************************************)
EXTENDS Integers, Sequences, FiniteSets, TLC

VARIABLES
    Global,      \* Config.Global of the store object in memory
    Profiles,    \* Config.Profiles: profile name -> Profile
    Current,     \* Config.Current (never saved)
    ret,         \* what the last operation returned
    configFile,  \* the store file on disk
    gitIdentity, \* what `git config --global user.name / user.email` answer
    saved,       \* the store last written by SaveConfig, while the file still holds it
    content,     \* git config text: what parseGitConfig reads, buildGitConfig writes
    config,      \* the flat map "section.key" -> value
    calls,       \* the codec functions applied so far, in order
    source,      \* the text or map the codec run started from
    builtFrom,   \* config as it was when buildGitConfig was last applied
    gitConfigFile,   \* the global git config file, Git.globalConfigPath
    backupFile,      \* the backup file, Paths.GitConfigBackup
    originalContent, \* what the last successful backup copied, while the
                     \* backup file still holds it
    commands         \* the add command of each shell: the store it loaded,
                     \* while it runs and after it has reported success

storeVars == <<Global, Profiles, Current, ret, configFile, gitIdentity, saved>>

codecVars == <<content, config, calls, source, builtFrom>>

gitVars == <<gitConfigFile, backupFile, originalContent>>

vars == <<storeVars, codecVars, gitVars, commands>>

-----------------------------------------------------------------------------
(* Values of type any *)

S(s) == [t |-> "string", v |-> s]
B(b) == [t |-> "bool", v |-> b]
I(n) == [t |-> "int", v |-> n]
M(m) == [t |-> "map", v |-> m]
L(l) == [t |-> "list", v |-> l]
U(l) == [t |-> "urlconfigs", v |-> l]
NilValue == [t |-> "nil", v |-> "nil"]

\* fmt.Sprintf("%v", x) for the scalars a URL mapping can hold
FmtV(x) ==
    IF x.t = "nil" THEN "<nil>" ELSE x.v

-----------------------------------------------------------------------------
(* Profile, UserConfig, URLConfig *)

ConfigSections ==
    <<"add", "alias", "branch", "column", "commit", "core", "delta", "diff",
      "feature", "fetch", "gpg", "http", "init", "interactive", "maintenance",
      "merge", "pull", "push", "rebase", "rerere", "tag">>

UserConfig(name, email, key) ==
    [Name |-> name, Email |-> email, SigningKey |-> key]

URLConfig(pattern, insteadOf) ==
    [Pattern |-> pattern, InsteadOf |-> insteadOf]

\* the zero Profile: &Profile{}
EmptyProfile ==
    [Add |-> <<>>, Alias |-> <<>>, Branch |-> <<>>, Column |-> <<>>,
     Commit |-> <<>>, Core |-> <<>>, Custom |-> <<>>, Delta |-> <<>>,
     Diff |-> <<>>, Feature |-> <<>>, Fetch |-> <<>>, GPG |-> <<>>,
     HTTP |-> <<>>, Init |-> <<>>, Interactive |-> <<>>, Maintenance |-> <<>>,
     Merge |-> <<>>, Pull |-> <<>>, Push |-> <<>>, Rebase |-> <<>>,
     Rerere |-> <<>>, Tag |-> <<>>,
     URL |-> <<>>,
     User |-> UserConfig("", "", "")]

\* a nil *Profile
NilProfile == [nil |-> TRUE]

GetSection(p, name) ==
    CASE name = "add" -> p.Add
      [] name = "alias" -> p.Alias
      [] name = "branch" -> p.Branch
      [] name = "column" -> p.Column
      [] name = "commit" -> p.Commit
      [] name = "core" -> p.Core
      [] name = "delta" -> p.Delta
      [] name = "diff" -> p.Diff
      [] name = "feature" -> p.Feature
      [] name = "fetch" -> p.Fetch
      [] name = "gpg" -> p.GPG
      [] name = "http" -> p.HTTP
      [] name = "init" -> p.Init
      [] name = "interactive" -> p.Interactive
      [] name = "maintenance" -> p.Maintenance
      [] name = "merge" -> p.Merge
      [] name = "pull" -> p.Pull
      [] name = "push" -> p.Push
      [] name = "rebase" -> p.Rebase
      [] name = "rerere" -> p.Rerere
      [] name = "tag" -> p.Tag
      [] OTHER -> <<>>

\* a SetSection whose case "pull" assigns the field of "push"
SetSectionPullIntoPush(p, name, values) ==
    CASE name = "add" -> [p EXCEPT !.Add = values]
      [] name = "alias" -> [p EXCEPT !.Alias = values]
      [] name = "branch" -> [p EXCEPT !.Branch = values]
      [] name = "column" -> [p EXCEPT !.Column = values]
      [] name = "commit" -> [p EXCEPT !.Commit = values]
      [] name = "core" -> [p EXCEPT !.Core = values]
      [] name = "delta" -> [p EXCEPT !.Delta = values]
      [] name = "diff" -> [p EXCEPT !.Diff = values]
      [] name = "feature" -> [p EXCEPT !.Feature = values]
      [] name = "fetch" -> [p EXCEPT !.Fetch = values]
      [] name = "gpg" -> [p EXCEPT !.GPG = values]
      [] name = "http" -> [p EXCEPT !.HTTP = values]
      [] name = "init" -> [p EXCEPT !.Init = values]
      [] name = "interactive" -> [p EXCEPT !.Interactive = values]
      [] name = "maintenance" -> [p EXCEPT !.Maintenance = values]
      [] name = "merge" -> [p EXCEPT !.Merge = values]
      [] name = "pull" -> [p EXCEPT !.Push = values]
      [] name = "push" -> [p EXCEPT !.Push = values]
      [] name = "rebase" -> [p EXCEPT !.Rebase = values]
      [] name = "rerere" -> [p EXCEPT !.Rerere = values]
      [] name = "tag" -> [p EXCEPT !.Tag = values]
      [] OTHER -> p

SetSection(p, name, values) ==
    CASE name = "add" -> [p EXCEPT !.Add = values]
      [] name = "alias" -> [p EXCEPT !.Alias = values]
      [] name = "branch" -> [p EXCEPT !.Branch = values]
      [] name = "column" -> [p EXCEPT !.Column = values]
      [] name = "commit" -> [p EXCEPT !.Commit = values]
      [] name = "core" -> [p EXCEPT !.Core = values]
      [] name = "delta" -> [p EXCEPT !.Delta = values]
      [] name = "diff" -> [p EXCEPT !.Diff = values]
      [] name = "feature" -> [p EXCEPT !.Feature = values]
      [] name = "fetch" -> [p EXCEPT !.Fetch = values]
      [] name = "gpg" -> [p EXCEPT !.GPG = values]
      [] name = "http" -> [p EXCEPT !.HTTP = values]
      [] name = "init" -> [p EXCEPT !.Init = values]
      [] name = "interactive" -> [p EXCEPT !.Interactive = values]
      [] name = "maintenance" -> [p EXCEPT !.Maintenance = values]
      [] name = "merge" -> [p EXCEPT !.Merge = values]
      [] name = "pull" -> [p EXCEPT !.Pull = values]
      [] name = "push" -> [p EXCEPT !.Push = values]
      [] name = "rebase" -> [p EXCEPT !.Rebase = values]
      [] name = "rerere" -> [p EXCEPT !.Rerere = values]
      [] name = "tag" -> [p EXCEPT !.Tag = values]
      [] OTHER -> p

-----------------------------------------------------------------------------
(* Errors *)

NoError == "nil"
ErrAlreadyExists == "profile already exists"
ErrDoesNotExist == "profile does not exist"
ErrRead == "failed to read config file"
ErrParse == "failed to parse config file"
ErrWrite == "failed to write config file"

-----------------------------------------------------------------------------
(* Config: the in-memory operations *)

\* maps.Copy(dst, src)
mapsCopy(dst, src) ==
    [k \in DOMAIN dst \cup DOMAIN src |->
        IF k \in DOMAIN src THEN src[k] ELSE dst[k]]

\* a mergeMap that lets the global value win on collision
mergeMapGlobalWins(globalConfig, profileConfig) ==
    mapsCopy(mapsCopy(<<>>, profileConfig), globalConfig)

mergeMap(globalConfig, profileConfig) ==
    mapsCopy(mapsCopy(<<>>, globalConfig), profileConfig)

\* the closure getGlobalSection of Config.Merge
getGlobalSection(global, section) ==
    IF section \in DOMAIN global /\ global[section].t = "map"
    THEN global[section].v
    ELSE <<>>

\* c.Global[key]: the value, or nil when the key is absent
GlobalAt(global, key) ==
    IF key \in DOMAIN global THEN global[key] ELSE NilValue

\* urlMap[key] of a map[string]any
MapAt(m, key) ==
    IF key \in DOMAIN m THEN m[key] ELSE NilValue

\* the loop over a []any global URL list: only mappings become rules
RECURSIVE appendURLs(_, _)
appendURLs(mergedURLs, urlList) ==
    IF urlList = <<>> THEN mergedURLs
    ELSE LET item == Head(urlList)
         IN  appendURLs(
                 IF item.t = "map"
                 THEN Append(mergedURLs,
                             URLConfig(FmtV(MapAt(item.v, "pattern")),
                                       FmtV(MapAt(item.v, "insteadOf"))))
                 ELSE mergedURLs,
                 Tail(urlList))

\* a URL merge that appends the global rules to the profile's own
mergeURLsAlways(global, profile) ==
    LET g == GlobalAt(global, "url")
    IN  CASE g.t = "urlconfigs" -> profile.URL \o g.v
          [] g.t = "list" -> appendURLs(profile.URL, g.v)
          [] OTHER -> profile.URL

\* Config.Merge, the URL part: the profile's list, or the global one when
\* the profile has none
mergeURLs(global, profile) ==
    LET mergedURLs == profile.URL
        g == GlobalAt(global, "url")
    IN  IF Len(mergedURLs) = 0 /\ g.t # "nil"
        THEN CASE g.t = "urlconfigs" -> g.v
               [] g.t = "list" -> appendURLs(mergedURLs, g.v)
               [] OTHER -> mergedURLs
        ELSE mergedURLs

\* Config.Merge, the loop over ConfigSections
RECURSIVE mergeSections(_, _, _, _)
mergeSections(merged, global, profile, i) ==
    IF i > Len(ConfigSections) THEN merged
    ELSE LET section == ConfigSections[i]
         IN  mergeSections(
                 SetSection(merged, section,
                            mergeMap(getGlobalSection(global, section),
                                     GetSection(profile, section))),
                 global, profile, i + 1)

\* a merged profile that also takes the user and custom sections of global
mergedProfileInherits(global, profile) ==
    LET gu == getGlobalSection(global, "user")
        user == [Name |-> IF profile.User.Name = "" /\ "name" \in DOMAIN gu
                          THEN FmtV(gu["name"]) ELSE profile.User.Name,
                 Email |-> IF profile.User.Email = "" /\ "email" \in DOMAIN gu
                           THEN FmtV(gu["email"]) ELSE profile.User.Email,
                 SigningKey |-> profile.User.SigningKey]
        merged == [EmptyProfile EXCEPT !.User = user,
                                       !.URL = mergeURLs(global, profile)]
    IN  [mergeSections(merged, global, profile, 1) EXCEPT
            !.Custom = mergeMap(getGlobalSection(global, "custom"), profile.Custom)]

\* Config.Merge on an existing profile: the merged profile it returns
mergedProfile(global, profile) ==
    LET merged == [EmptyProfile EXCEPT !.User = profile.User,
                                       !.URL = mergeURLs(global, profile)]
    IN  [mergeSections(merged, global, profile, 1) EXCEPT
            !.Custom = profile.Custom]

Return(op, name, err, val) ==
    [op |-> op, name |-> name, err |-> err, val |-> val]

\* the shells a user runs commands from
Shells == {"first", "second"}

\* no command is running in a shell
Idle == [pc |-> "idle", name |-> "", Global |-> <<>>, Profiles |-> <<>>,
         err |-> NoError]

NoCommands == [sh \in Shells |-> Idle]

fileVars == <<configFile, gitIdentity, saved, codecVars, gitVars, commands>>

NewConfig ==
    /\ Global' = <<>>
    /\ Profiles' = <<>>
    /\ Current' = ""
    /\ ret' = Return("NewConfig", "", NoError, "")
    /\ UNCHANGED fileVars

\* cfg.Global = map[string]any{...}, as the tests of the package set it
SetGlobal(g) ==
    /\ Global' = g
    /\ ret' = Return("SetGlobal", "", NoError, "")
    /\ UNCHANGED <<Profiles, Current>>
    /\ UNCHANGED fileVars

\* an AddProfile that stores the profile even when the name is taken
AddProfileOverwrites(name, profile) ==
    /\ Profiles' = [n \in DOMAIN Profiles \cup {name} |->
                       IF n = name THEN profile ELSE Profiles[n]]
    /\ ret' = Return("AddProfile", name,
                     IF name \in DOMAIN Profiles THEN ErrAlreadyExists ELSE NoError,
                     profile)
    /\ UNCHANGED <<Global, Current>>
    /\ UNCHANGED fileVars

AddProfile(name, profile) ==
    /\ IF name \in DOMAIN Profiles
       THEN /\ ret' = Return("AddProfile", name, ErrAlreadyExists, profile)
            /\ UNCHANGED Profiles
       ELSE /\ Profiles' = [n \in DOMAIN Profiles \cup {name} |->
                               IF n = name THEN profile ELSE Profiles[n]]
            /\ ret' = Return("AddProfile", name, NoError, profile)
    /\ UNCHANGED <<Global, Current>>
    /\ UNCHANGED fileVars

\* a RemoveProfile that clears the whole map
RemoveProfileClears(name) ==
    /\ IF name \notin DOMAIN Profiles
       THEN /\ ret' = Return("RemoveProfile", name, ErrDoesNotExist, "")
            /\ UNCHANGED Profiles
       ELSE /\ Profiles' = <<>>
            /\ ret' = Return("RemoveProfile", name, NoError, "")
    /\ UNCHANGED <<Global, Current>>
    /\ UNCHANGED fileVars

RemoveProfile(name) ==
    /\ IF name \notin DOMAIN Profiles
       THEN /\ ret' = Return("RemoveProfile", name, ErrDoesNotExist, "")
            /\ UNCHANGED Profiles
       ELSE /\ Profiles' = [n \in DOMAIN Profiles \ {name} |-> Profiles[n]]
            /\ ret' = Return("RemoveProfile", name, NoError, "")
    /\ UNCHANGED <<Global, Current>>
    /\ UNCHANGED fileVars

GetProfile(name) ==
    /\ ret' = IF name \in DOMAIN Profiles
              THEN Return("GetProfile", name, NoError, Profiles[name])
              ELSE Return("GetProfile", name, ErrDoesNotExist, NilProfile)
    /\ UNCHANGED <<Global, Profiles, Current>>
    /\ UNCHANGED fileVars

\* every order a range over the map can produce
Orderings(names) ==
    {seq \in [1..Cardinality(names) -> names] :
        \A i, j \in 1..Cardinality(names) : i # j => seq[i] # seq[j]}

ListProfiles ==
    /\ \E profiles \in Orderings(DOMAIN Profiles) :
           ret' = Return("ListProfiles", "", NoError, profiles)
    /\ UNCHANGED <<Global, Profiles, Current>>
    /\ UNCHANGED fileVars

\* a Merge that writes the merged sections back into the stored profile
MergeInPlace(profileName) ==
    /\ IF profileName \notin DOMAIN Profiles
       THEN /\ ret' = Return("Merge", profileName, ErrDoesNotExist, NilProfile)
            /\ UNCHANGED Profiles
       ELSE /\ ret' = Return("Merge", profileName, NoError,
                             mergedProfile(Global, Profiles[profileName]))
            /\ Profiles' = [Profiles EXCEPT ![profileName] =
                               mergedProfile(Global, Profiles[profileName])]
    /\ UNCHANGED <<Global, Current>>
    /\ UNCHANGED fileVars

\* a Merge that hands back the zero profile for an unknown name
MergeNoCheck(profileName) ==
    /\ ret' = Return("Merge", profileName, NoError,
                     mergedProfile(Global,
                                   IF profileName \in DOMAIN Profiles
                                   THEN Profiles[profileName] ELSE EmptyProfile))
    /\ UNCHANGED <<Global, Profiles, Current>>
    /\ UNCHANGED fileVars

Merge(profileName) ==
    /\ ret' = IF profileName \notin DOMAIN Profiles
              THEN Return("Merge", profileName, ErrDoesNotExist, NilProfile)
              ELSE Return("Merge", profileName, NoError,
                          mergedProfile(Global, Profiles[profileName]))
    /\ UNCHANGED <<Global, Profiles, Current>>
    /\ UNCHANGED fileVars

-----------------------------------------------------------------------------
(* The store file: yaml.Marshal and yaml.Unmarshal of a Config.  A YAML     *)
(* document is a function from its top-level keys to values; mappings are  *)
(* M, sequences L, scalars S, B, I and null NilValue.                       *)

\* the yaml tag of every map[string]any field of Profile
FieldOf ==
    [add |-> "Add", alias |-> "Alias", branch |-> "Branch", column |-> "Column",
     commit |-> "Commit", core |-> "Core", custom |-> "Custom", delta |-> "Delta",
     diff |-> "Diff", feature |-> "Feature", fetch |-> "Fetch", gpg |-> "GPG",
     http |-> "HTTP", init |-> "Init", interactive |-> "Interactive",
     maintenance |-> "Maintenance", merge |-> "Merge", pull |-> "Pull",
     push |-> "Push", rebase |-> "Rebase", rerere |-> "Rerere", tag |-> "Tag"]

\* how the encoder writes a value: a []URLConfig becomes a sequence of
\* mappings with the keys pattern and insteadOf
RECURSIVE yamlValue(_)
yamlValue(x) ==
    CASE x.t = "urlconfigs" ->
            L([i \in 1..Len(x.v) |->
                  M([pattern |-> S(x.v[i].Pattern),
                     insteadOf |-> S(x.v[i].InsteadOf)])])
      [] x.t = "map" -> M([k \in DOMAIN x.v |-> yamlValue(x.v[k])])
      [] x.t = "list" -> L([i \in 1..Len(x.v) |-> yamlValue(x.v[i])])
      [] OTHER -> x

\* UserConfig: name and email always, signingkey with omitempty
marshalUser(u) ==
    M(IF u.SigningKey = ""
      THEN [name |-> S(u.Name), email |-> S(u.Email)]
      ELSE [name |-> S(u.Name), email |-> S(u.Email),
            signingkey |-> S(u.SigningKey)])

\* Profile: every field has omitempty
marshalProfile(p) ==
    LET tags == {tg \in DOMAIN FieldOf : p[FieldOf[tg]] # <<>>}
        sections == [tg \in tags |-> yamlValue(M(p[FieldOf[tg]]))]
        url == IF p.URL # <<>> THEN [url |-> yamlValue(U(p.URL))] ELSE <<>>
        user == IF p.User # UserConfig("", "", "")
                THEN [user |-> marshalUser(p.User)] ELSE <<>>
    IN  M(sections @@ url @@ user)

\* a Config whose Current field has lost its `yaml:"-"` tag
MarshalWithCurrent(global, profiles, current) ==
    [global |-> yamlValue(M(global)),
     profiles |-> M([n \in DOMAIN profiles |-> marshalProfile(profiles[n])]),
     current |-> S(current)]

\* yaml.Marshal(c): the keys global and profiles; Current is tagged "-"
Marshal(global, profiles, current) ==
    [global |-> yamlValue(M(global)),
     profiles |-> M([n \in DOMAIN profiles |-> marshalProfile(profiles[n])])]

unmarshalUser(m) ==
    UserConfig(IF "name" \in DOMAIN m THEN m["name"].v ELSE "",
               IF "email" \in DOMAIN m THEN m["email"].v ELSE "",
               IF "signingkey" \in DOMAIN m THEN m["signingkey"].v ELSE "")

unmarshalURL(l) ==
    [i \in 1..Len(l) |->
        URLConfig(IF "pattern" \in DOMAIN l[i].v THEN l[i].v["pattern"].v ELSE "",
                  IF "insteadOf" \in DOMAIN l[i].v THEN l[i].v["insteadOf"].v ELSE "")]

\* a decoder that keeps only the user of a profile
unmarshalProfileUserOnly(m) ==
    [EmptyProfile EXCEPT
        !.User = IF "user" \in DOMAIN m THEN unmarshalUser(m["user"].v)
                 ELSE UserConfig("", "", "")]

\* a profile mapping decoded into a Profile: known keys fill their fields,
\* other keys are ignored, absent keys leave the zero value
unmarshalProfile(m) ==
    [f \in DOMAIN EmptyProfile |->
        CASE f = "User" ->
                IF "user" \in DOMAIN m THEN unmarshalUser(m["user"].v)
                ELSE UserConfig("", "", "")
          [] f = "URL" ->
                IF "url" \in DOMAIN m THEN unmarshalURL(m["url"].v) ELSE <<>>
          [] OTHER ->
                LET tg == CHOOSE x \in DOMAIN FieldOf : FieldOf[x] = f
                IN  IF tg \in DOMAIN m THEN m[tg].v ELSE <<>>]

\* yaml.Unmarshal(data, config) into NewConfig()
UnmarshalGlobal(doc) ==
    IF "global" \in DOMAIN doc /\ doc["global"].t = "map"
    THEN doc["global"].v ELSE <<>>

UnmarshalProfiles(doc) ==
    IF "profiles" \in DOMAIN doc /\ doc["profiles"].t = "map"
    THEN [n \in DOMAIN doc["profiles"].v |->
             unmarshalProfile(doc["profiles"].v[n].v)]
    ELSE <<>>

AbsentFile == [kind |-> "absent", doc |-> <<>>]
UnreadableFile == [kind |-> "unreadable", doc |-> <<>>]
MalformedFile == [kind |-> "malformed", doc |-> <<>>]
YamlFile(doc) == [kind |-> "yaml", doc |-> doc]

\* a file of the git side: absent, a regular file with its text, or a path
\* that exists and cannot be read
NoFile == [kind |-> "absent", text |-> <<>>]
TextFile(text) == [kind |-> "file", text |-> text]
Unreadable(text) == [kind |-> "unreadable", text |-> text]

NoBackup == [ok |-> FALSE, text |-> <<>>]

NothingSaved == [ok |-> FALSE, Global |-> <<>>, Profiles |-> <<>>, Current |-> ""]

\* the two probes of determineCurrent: each may fail
Identity(nameOk, name, emailOk, email) ==
    [nameOk |-> nameOk, name |-> name, emailOk |-> emailOk, email |-> email]

\* a probe that compares the user name alone
MatchesNameOnly(profiles, id) ==
    IF id.nameOk /\ id.emailOk
    THEN {n \in DOMAIN profiles : profiles[n].User.Name = id.name}
    ELSE {}

\* the profiles the loop of determineCurrent can stop at
Matches(profiles, id) ==
    IF id.nameOk /\ id.emailOk
    THEN {n \in DOMAIN profiles :
             /\ profiles[n].User.Name = id.name
             /\ profiles[n].User.Email = id.email}
    ELSE {}

\* c.Current after determineCurrent on a fresh config
determineCurrent(profiles, id, current) ==
    /\ IF Matches(profiles, id) = {}
       THEN current = ""
       ELSE current \in Matches(profiles, id)

\* a LoadConfig that answers a malformed file with an empty store
LoadConfigLenient ==
    /\ CASE configFile.kind = "absent" ->
              /\ Global' = <<>>
              /\ Profiles' = <<>>
              /\ Current' = ""
              /\ ret' = Return("LoadConfig", "", NoError, "config")
         [] configFile.kind = "unreadable" ->
              /\ ret' = Return("LoadConfig", "", ErrRead, "nil")
              /\ UNCHANGED <<Global, Profiles, Current>>
         [] configFile.kind = "malformed" ->
              /\ Global' = <<>>
              /\ Profiles' = <<>>
              /\ Current' = ""
              /\ ret' = Return("LoadConfig", "", NoError, "config")
         [] configFile.kind = "yaml" ->
              /\ Global' = UnmarshalGlobal(configFile.doc)
              /\ Profiles' = UnmarshalProfiles(configFile.doc)
              /\ \E current \in DOMAIN Profiles' \cup {""} :
                    /\ determineCurrent(Profiles', gitIdentity, current)
                    /\ Current' = current
              /\ ret' = Return("LoadConfig", "", NoError, "config")
    /\ UNCHANGED fileVars

LoadConfig ==
    /\ CASE configFile.kind = "absent" ->
              /\ Global' = <<>>
              /\ Profiles' = <<>>
              /\ Current' = ""
              /\ ret' = Return("LoadConfig", "", NoError, "config")
         [] configFile.kind = "unreadable" ->
              /\ ret' = Return("LoadConfig", "", ErrRead, "nil")
              /\ UNCHANGED <<Global, Profiles, Current>>
         [] configFile.kind = "malformed" ->
              /\ ret' = Return("LoadConfig", "", ErrParse, "nil")
              /\ UNCHANGED <<Global, Profiles, Current>>
         [] configFile.kind = "yaml" ->
              /\ Global' = UnmarshalGlobal(configFile.doc)
              /\ Profiles' = UnmarshalProfiles(configFile.doc)
              /\ \E current \in DOMAIN Profiles' \cup {""} :
                    /\ determineCurrent(Profiles', gitIdentity, current)
                    /\ Current' = current
              /\ ret' = Return("LoadConfig", "", NoError, "config")
    /\ UNCHANGED fileVars

\* SaveConfig writes the whole store; os.WriteFile may fail and then the
\* file is as it was
SaveConfig ==
    /\ \E written \in BOOLEAN :
          IF written
          THEN /\ configFile' = YamlFile(Marshal(Global, Profiles, Current))
               /\ saved' = [ok |-> TRUE, Global |-> Global,
                            Profiles |-> Profiles, Current |-> Current]
               /\ ret' = Return("SaveConfig", "", NoError, "")
          ELSE /\ ret' = Return("SaveConfig", "", ErrWrite, "")
               /\ UNCHANGED <<configFile, saved>>
    /\ UNCHANGED <<Global, Profiles, Current, gitIdentity, codecVars, commands, gitVars>>

\* the user edits, damages, protects or deletes the store file
EditConfigFile(f) ==
    /\ configFile' = f
    /\ saved' = NothingSaved
    /\ ret' = Return("EditConfigFile", "", NoError, "")
    /\ UNCHANGED <<Global, Profiles, Current, gitIdentity, codecVars, commands, gitVars>>

\* the global git identity changes outside the program
SetGitIdentity(id) ==
    /\ gitIdentity' = id
    /\ ret' = Return("SetGitIdentity", "", NoError, "")
    /\ UNCHANGED <<Global, Profiles, Current, configFile, saved, codecVars, commands, gitVars>>

-----------------------------------------------------------------------------
(* The inputs the operations are driven with *)

\* how many profiles the store holds at most
MaxProfiles == 2

ProfileNames == {"work", "personal", "test"}

GithubRule == URLConfig("ssh://git@github.com/", "https://github.com/")
GitlabRule == URLConfig("ssh://git@gitlab.com/", "https://gitlab.com/")
BitbucketRule == URLConfig("ssh://git@bitbucket.org/", "https://bitbucket.org/")

TestProfile ==
    [EmptyProfile EXCEPT
        !.User = UserConfig("Test User", "test@example.com", ""),
        !.Core = [autocrlf |-> S("false")],
        !.HTTP = [postBuffer |-> S("524288000")]]

WorkProfile ==
    [EmptyProfile EXCEPT
        !.User = UserConfig("Work User", "work@example.com", "ABCD1234"),
        !.URL = <<GitlabRule, BitbucketRule>>,
        !.Alias = [co |-> S("checkout")],
        !.Delta = [navigate |-> B("true"),
                   interactive |-> M([keepMarkers |-> B("false")])],
        !.Custom = [section |-> M([key |-> S("value")])]]

\* the same identity as TestProfile under another record
TwinProfile ==
    [EmptyProfile EXCEPT
        !.User = UserConfig("Test User", "test@example.com", ""),
        !.URL = <<GithubRule>>,
        !.Core = [editor |-> S("nano"), pager |-> S("delta")],
        !.Push = [default |-> S("current")]]

ProfilePool == {EmptyProfile, TestProfile, WorkProfile, TwinProfile}

GenericRule(r) == M([pattern |-> S(r.Pattern), insteadOf |-> S(r.InsteadOf)])

GlobalPool ==
    { <<>>,
      \* TestMerge
      [core |-> M([editor |-> S("vim"), autocrlf |-> S("input")]),
       push |-> M([default |-> S("simple")])],
      \* TestMergeURLs: a typed URL list; sections that are no mappings
      [url |-> U(<<GithubRule, BitbucketRule>>),
       core |-> S("vim"),
       http |-> L(<<S("a")>>),
       user |-> M([name |-> S("Global User"), email |-> S("global@example.com"),
                   signingkey |-> S("FFFF0000")]),
       custom |-> M([section |-> M([key |-> S("global")]), other |-> S("x")])],
      \* TestMergeWithInterfaceURLs: the list as the YAML decoder leaves it
      [url |-> L(<<GenericRule(BitbucketRule), GenericRule(GithubRule)>>),
       alias |-> M([co |-> S("commit"), st |-> S("status")]),
       delta |-> M([interactive |-> M([diffFilter |-> S("delta")]),
                    navigate |-> B("false")]),
       user |-> M([name |-> S("Global User")])],
      \* a list with items that are no rules, and a url key that is no list
      [url |-> L(<<S("ssh://x/"), M([pattern |-> S("ssh://y/")]),
                   M([pattern |-> I("1"), insteadOf |-> B("true")])>>),
       core |-> M([editor |-> S("vim")])],
      [url |-> M([pattern |-> S("ssh://x/")]),
       tag |-> M([sort |-> S("version:refname")])],
      [url |-> NilValue, custom |-> M([only |-> S("global")])] }

FileGlobalPool ==
    { [url |-> U(<<GithubRule, BitbucketRule>>),
       core |-> M([editor |-> S("vim"), autocrlf |-> S("input")]),
       http |-> S("notamapping")] }

\* the store files a user can leave behind
FileProfile == [work |-> WorkProfile, personal |-> TestProfile]

FileNames == DOMAIN FileProfile

HandWritten ==
    [global |-> M([core |-> M([editor |-> S("vim")]),
                   url |-> L(<<GenericRule(GithubRule)>>)]),
     profiles |-> M([work |-> M([user |-> M([name |-> S("Work User"),
                                             email |-> S("work@example.com")]),
                                 url |-> L(<<GenericRule(GitlabRule)>>),
                                 core |-> M([autocrlf |-> B("false")]),
                                 unknown |-> S("ignored")]),
                     twin |-> M([user |-> M([name |-> S("Work User"),
                                             email |-> S("work@example.com"),
                                             signingkey |-> S("ABCD1234")])])])]

ProfilesOnly ==
    [profiles |-> M([personal |-> M([user |-> M([name |-> S("Test User"),
                                                 email |-> S("test@example.com")]),
                                     custom |-> M([x |-> S("y")])])])]

FilePool ==
    {AbsentFile, UnreadableFile, MalformedFile,
     YamlFile(HandWritten), YamlFile(ProfilesOnly)}

IdentityPool ==
    {Identity(FALSE, "", FALSE, ""),
     Identity(TRUE, "Work User", FALSE, ""),
     Identity(TRUE, "Work User", TRUE, "work@example.com"),
     Identity(TRUE, "Test User", TRUE, "work@example.com")}

-----------------------------------------------------------------------------
(* The store object driven through its methods *)

Init ==
    /\ Global = <<>>
    /\ Profiles = <<>>
    /\ Current = ""
    /\ ret = Return("NewConfig", "", NoError, "")
    /\ configFile = AbsentFile
    /\ gitIdentity = Identity(FALSE, "", FALSE, "")
    /\ saved = NothingSaved
    /\ content = <<>>
    /\ config = <<>>
    /\ calls = <<>>
    /\ source = <<>>
    /\ builtFrom = <<>>
    /\ gitConfigFile = NoFile
    /\ backupFile = NoFile
    /\ originalContent = NoBackup
    /\ commands = NoCommands

Room(name) ==
    name \in DOMAIN Profiles \/ Cardinality(DOMAIN Profiles) < MaxProfiles

Next ==
    \/ NewConfig
    \/ \E g \in GlobalPool : SetGlobal(g)
    \/ \E name \in ProfileNames, profile \in ProfilePool :
          Room(name) /\ AddProfile(name, profile)
    \/ \E name \in ProfileNames : RemoveProfile(name)
    \/ \E name \in ProfileNames : GetProfile(name)
    \/ ListProfiles
    \/ \E name \in ProfileNames : Merge(name)

Spec == Init /\ [][Next]_vars

-----------------------------------------------------------------------------
(* The store object loaded from and saved to its file *)

NextFile ==
    \/ LoadConfig
    \/ SaveConfig
    \/ \E f \in FilePool : EditConfigFile(f)
    \/ \E id \in IdentityPool : SetGitIdentity(id)
    \/ \E name \in FileNames :
          Room(name) /\ AddProfile(name, FileProfile[name])
    \/ \E name \in FileNames : RemoveProfile(name)
    \/ \E g \in FileGlobalPool : SetGlobal(g)

SpecFile == Init /\ [][NextFile]_vars

-----------------------------------------------------------------------------
(* Config.Merge: C1 - C5 *)

MergeReturned == ret.op = "Merge" /\ ret.err = NoError

\* the profile Merge was called on; Merge leaves the store as it was
MergedFrom == Profiles[ret.name]

\* C1: Merge(P) yields, for every section S of ConfigSections and every key
\* k, P[S][k] when P[S] defines k, otherwise G[S][k] when G[S] is a mapping
\* that defines k, and no entry for k otherwise.
C1_MergeOverridesKeyByKey ==
    MergeReturned =>
        \A i \in 1..Len(ConfigSections) :
            LET section == ConfigSections[i]
                field == FieldOf[section]
                merged == ret.val[field]
                own == MergedFrom[field]
                inGlobal(k) == /\ section \in DOMAIN Global
                               /\ Global[section].t = "map"
                               /\ k \in DOMAIN Global[section].v
                keys == DOMAIN merged \cup DOMAIN own \cup
                        (IF section \in DOMAIN Global /\ Global[section].t = "map"
                         THEN DOMAIN Global[section].v ELSE {})
            IN  \A k \in keys :
                    IF k \in DOMAIN own
                    THEN k \in DOMAIN merged /\ merged[k] = own[k]
                    ELSE IF inGlobal(k)
                         THEN k \in DOMAIN merged /\ merged[k] = Global[section].v[k]
                         ELSE k \notin DOMAIN merged

\* a merge in which a profile key beat a different global value and another
\* key of the same section was inherited
C1_Witness ==
    /\ MergeReturned
    /\ "core" \in DOMAIN Global
    /\ Global["core"].t = "map"
    /\ \E k \in DOMAIN MergedFrom.Core \cap DOMAIN Global["core"].v :
          /\ MergedFrom.Core[k] # Global["core"].v[k]
          /\ ret.val.Core[k] = MergedFrom.Core[k]
    /\ \E k \in DOMAIN Global["core"].v \ DOMAIN MergedFrom.Core :
          ret.val.Core[k] = Global["core"].v[k]

\* the global URL list, in either representation, as a list of rules
GlobalHasNoURL == "url" \notin DOMAIN Global \/ Global["url"].t = "nil"

GlobalURLIsTyped == "url" \in DOMAIN Global /\ Global["url"].t = "urlconfigs"

GlobalURLIsGeneric ==
    /\ "url" \in DOMAIN Global
    /\ Global["url"].t = "list"
    /\ \A i \in 1..Len(Global["url"].v) :
          LET item == Global["url"].v[i]
          IN  /\ item.t = "map"
              /\ {"pattern", "insteadOf"} \subseteq DOMAIN item.v
              /\ item.v["pattern"].t = "string"
              /\ item.v["insteadOf"].t = "string"

\* C2: with an empty profile URL list Merge returns the global URL list
\* verbatim (same rules, same order, typed or generic); with a non-empty
\* one it returns exactly the profile's list.
C2_MergeURLs ==
    MergeReturned =>
        /\ MergedFrom.URL # <<>> => ret.val.URL = MergedFrom.URL
        /\ MergedFrom.URL = <<>> /\ GlobalHasNoURL => ret.val.URL = <<>>
        /\ MergedFrom.URL = <<>> /\ GlobalURLIsTyped =>
              ret.val.URL = Global["url"].v
        /\ MergedFrom.URL = <<>> /\ GlobalURLIsGeneric =>
              /\ Len(ret.val.URL) = Len(Global["url"].v)
              /\ \A i \in 1..Len(Global["url"].v) :
                    /\ ret.val.URL[i].Pattern = Global["url"].v[i].v["pattern"].v
                    /\ ret.val.URL[i].InsteadOf = Global["url"].v[i].v["insteadOf"].v

\* a profile without rules merged over a generic global list of two rules
C2_Witness ==
    /\ MergeReturned
    /\ MergedFrom.URL = <<>>
    /\ GlobalURLIsGeneric
    /\ Len(Global["url"].v) = 2
    /\ ret.val.URL = <<BitbucketRule, GithubRule>>

\* C3: the user fields and the custom section of Merge(P) are P's own; a
\* user or custom section of the global settings never shows.
C3_MergeUserAndCustom ==
    MergeReturned =>
        /\ ret.val.User.Name = MergedFrom.User.Name
        /\ ret.val.User.Email = MergedFrom.User.Email
        /\ ret.val.User.SigningKey = MergedFrom.User.SigningKey
        /\ ret.val.Custom = MergedFrom.Custom

\* a profile without user and custom merged over global settings with both
C3_Witness ==
    /\ MergeReturned
    /\ {"user", "custom"} \subseteq DOMAIN Global
    /\ Global["user"].t = "map"
    /\ Global["custom"].t = "map"
    /\ MergedFrom.User = UserConfig("", "", "")
    /\ MergedFrom.Custom = <<>>
    /\ ret.val.User = UserConfig("", "", "")
    /\ ret.val.Custom = <<>>

\* C4: Merge(name) fails with the not-found error exactly when the store has
\* no profile of that name; otherwise it returns a profile, whatever the
\* global settings hold.
C4_MergeFailsOnlyWhenAbsent ==
    ret.op = "Merge" =>
        IF ret.name \in DOMAIN Profiles
        THEN ret.err = NoError /\ ret.val # NilProfile
        ELSE ret.err = ErrDoesNotExist /\ ret.val = NilProfile

\* a failed Merge on a store that holds other profiles, and global settings
\* with a section that is no mapping
C4_Witness ==
    /\ ret.op = "Merge"
    /\ ret.err = ErrDoesNotExist
    /\ Profiles # <<>>
    /\ "core" \in DOMAIN Global
    /\ Global["core"].t # "map"

\* C5: a call of Merge, successful or failed, leaves the global settings and
\* every profile of the store as they were.
C5_MergeIsPure ==
    [][ret'.op = "Merge" =>
          /\ Global' = Global
          /\ DOMAIN Profiles' = DOMAIN Profiles
          /\ \A n \in DOMAIN Profiles : Profiles'[n] = Profiles[n]
          /\ Current' = Current]_vars

\* a merge whose result differs from the stored profile, which is kept
C5_Witness ==
    /\ MergeReturned
    /\ ret.val # MergedFrom
    /\ ret.val.URL # MergedFrom.URL
    /\ \E i \in 1..Len(ConfigSections) :
          ret.val[FieldOf[ConfigSections[i]]] # MergedFrom[FieldOf[ConfigSections[i]]]

-----------------------------------------------------------------------------
(* AddProfile, RemoveProfile, GetProfile: C6, C7 *)

\* C6: AddProfile with a name the store holds fails with the already-exists
\* error and leaves every profile, the one of that name included, and the
\* global settings unchanged.
C6_AddProfileDuplicate ==
    [][ret'.op = "AddProfile" /\ ret'.name \in DOMAIN Profiles =>
          /\ ret'.err = ErrAlreadyExists
          /\ Profiles' = Profiles
          /\ Global' = Global]_vars

\* a refused AddProfile that offered another record than the stored one
C6_Witness ==
    /\ ret.op = "AddProfile"
    /\ ret.err = ErrAlreadyExists
    /\ ret.name \in DOMAIN Profiles
    /\ Profiles[ret.name] # ret.val
    /\ Cardinality(DOMAIN Profiles) > 1

\* C7: RemoveProfile of an absent name fails with the not-found error and
\* changes nothing; of a present name it removes that profile alone, and
\* GetProfile fails exactly for the names the store does not hold.
C7_RemoveProfile ==
    /\ [][ret'.op = "RemoveProfile" =>
            IF ret'.name \in DOMAIN Profiles
            THEN /\ ret'.err = NoError
                 /\ DOMAIN Profiles' = DOMAIN Profiles \ {ret'.name}
                 /\ \A n \in DOMAIN Profiles' : Profiles'[n] = Profiles[n]
                 /\ Global' = Global
            ELSE /\ ret'.err = ErrDoesNotExist
                 /\ Profiles' = Profiles
                 /\ Global' = Global]_vars
    /\ [](ret.op = "GetProfile" =>
            IF ret.name \in DOMAIN Profiles
            THEN ret.err = NoError /\ ret.val = Profiles[ret.name]
            ELSE ret.err = ErrDoesNotExist /\ ret.val = NilProfile)

\* a successful RemoveProfile that left another profile in the store
C7_Witness ==
    /\ ret.op = "RemoveProfile"
    /\ ret.err = NoError
    /\ ret.name \notin DOMAIN Profiles
    /\ Profiles # <<>>
    /\ Global # <<>>

-----------------------------------------------------------------------------
(* LoadConfig, SaveConfig: C8, C9 *)

\* what a store file says, read off the document itself
DocGlobal ==
    IF "global" \in DOMAIN configFile.doc
    THEN configFile.doc["global"].v ELSE <<>>

DocProfiles ==
    IF "profiles" \in DOMAIN configFile.doc
    THEN configFile.doc["profiles"].v ELSE <<>>

DocAt(m, key, default) ==
    IF key \in DOMAIN m THEN m[key].v ELSE default

LoadedAsWritten ==
    /\ Global = DocGlobal
    /\ DOMAIN Profiles = DOMAIN DocProfiles
    /\ \A n \in DOMAIN Profiles :
          LET p == Profiles[n]
              m == DocProfiles[n].v
              user == DocAt(m, "user", <<>>)
              url == DocAt(m, "url", <<>>)
          IN  /\ p.User.Name = DocAt(user, "name", "")
              /\ p.User.Email = DocAt(user, "email", "")
              /\ p.User.SigningKey = DocAt(user, "signingkey", "")
              /\ Len(p.URL) = Len(url)
              /\ \A i \in 1..Len(url) :
                    /\ p.URL[i].Pattern = url[i].v["pattern"].v
                    /\ p.URL[i].InsteadOf = url[i].v["insteadOf"].v
              /\ \A tg \in DOMAIN FieldOf : p[FieldOf[tg]] = DocAt(m, tg, <<>>)

\* C8: LoadConfig returns an empty store and no error when the file is
\* absent, the parse error and no store when the file is malformed, and the
\* profiles and global settings of the file when it parses.
C8_LoadConfig ==
    ret.op = "LoadConfig" =>
        /\ configFile.kind = "absent" =>
              /\ ret.err = NoError
              /\ ret.val = "config"
              /\ Global = <<>>
              /\ Profiles = <<>>
              /\ Current = ""
        /\ configFile.kind = "malformed" =>
              /\ ret.err = ErrParse
              /\ ret.val = "nil"
        /\ configFile.kind = "yaml" =>
              /\ ret.err = NoError
              /\ ret.val = "config"
              /\ LoadedAsWritten

\* a malformed file refused while the git identity would match a profile
\* of the store in memory
C8_Witness ==
    /\ ret.op = "LoadConfig"
    /\ configFile.kind = "malformed"
    /\ ret.err = ErrParse
    /\ Matches(Profiles, gitIdentity) # {}

\* a hand-written file with two profiles, a URL list and an unknown key,
\* loaded as written
C8_WitnessLoaded ==
    /\ ret.op = "LoadConfig"
    /\ configFile = YamlFile(HandWritten)
    /\ Cardinality(DOMAIN Profiles) = 2
    /\ Profiles["work"].URL = <<GitlabRule>>
    /\ Profiles["twin"].User.SigningKey = "ABCD1234"
    /\ Global # <<>>

\* the same settings, a typed URL list read back as a list of mappings
SameSettings(before, after) ==
    /\ DOMAIN after = DOMAIN before
    /\ \A k \in DOMAIN before :
          IF before[k].t = "urlconfigs"
          THEN /\ after[k].t = "list"
               /\ Len(after[k].v) = Len(before[k].v)
               /\ \A i \in 1..Len(before[k].v) :
                     /\ after[k].v[i].t = "map"
                     /\ after[k].v[i].v =
                           [pattern |-> S(before[k].v[i].Pattern),
                            insteadOf |-> S(before[k].v[i].InsteadOf)]
          ELSE after[k] = before[k]

\* the active name as the probe alone decides it
Derived ==
    IF Matches(Profiles, gitIdentity) = {}
    THEN Current = ""
    ELSE Current \in Matches(Profiles, gitIdentity)

\* C9: LoadConfig of the file SaveConfig wrote returns the saved profile
\* names, profile records and global settings; the file holds no active
\* name, and the loaded one is derived by the probe.
C9_SaveThenLoad ==
    /\ saved.ok =>
          /\ configFile.kind = "yaml"
          /\ DOMAIN configFile.doc = {"global", "profiles"}
    /\ ret.op = "LoadConfig" /\ saved.ok =>
          /\ ret.err = NoError
          /\ DOMAIN Profiles = DOMAIN saved.Profiles
          /\ \A n \in DOMAIN Profiles : Profiles[n] = saved.Profiles[n]
          /\ SameSettings(saved.Global, Global)
          /\ Derived

\* a store saved with an active name and a typed global URL list, loaded
\* again when the probe fails: same profiles, no active name
C9_Witness ==
    /\ ret.op = "LoadConfig"
    /\ saved.ok
    /\ saved.Current # ""
    /\ Current = ""
    /\ Cardinality(DOMAIN Profiles) = 2
    /\ \E n \in DOMAIN Profiles : Profiles[n] = WorkProfile
    /\ "url" \in DOMAIN saved.Global
    /\ saved.Global["url"].t = "urlconfigs"

-----------------------------------------------------------------------------
(* The git config codec: parseGitConfig and buildGitConfig.  A Go string   *)
(* is the sequence of its characters.                                      *)

Whitespace == {" ", "\t", "\n", "\r"}

RECURSIVE TrimLeft(_)
TrimLeft(s) ==
    IF s # <<>> /\ Head(s) \in Whitespace THEN TrimLeft(Tail(s)) ELSE s

RECURSIVE TrimRight(_)
TrimRight(s) ==
    IF s # <<>> /\ s[Len(s)] \in Whitespace
    THEN TrimRight(SubSeq(s, 1, Len(s) - 1)) ELSE s

\* strings.TrimSpace
TrimSpace(s) == TrimRight(TrimLeft(s))

\* strings.HasPrefix, HasSuffix, TrimPrefix, TrimSuffix for a one-character
\* prefix or suffix
HasPrefix(s, c) == s # <<>> /\ Head(s) = c
HasSuffix(s, c) == s # <<>> /\ s[Len(s)] = c
TrimPrefix(s, c) == IF HasPrefix(s, c) THEN Tail(s) ELSE s
TrimSuffix(s, c) == IF HasSuffix(s, c) THEN SubSeq(s, 1, Len(s) - 1) ELSE s

\* strings.Contains for a one-character substring
Contains(s, c) == \E i \in 1..Len(s) : s[i] = c

\* strings.Index and strings.LastIndex, counted from 1; 0 when absent
Index(s, c) ==
    IF Contains(s, c)
    THEN CHOOSE i \in 1..Len(s) : s[i] = c /\ \A j \in 1..(i - 1) : s[j] # c
    ELSE 0

LastIndex(s, c) ==
    IF Contains(s, c)
    THEN CHOOSE i \in 1..Len(s) : s[i] = c /\ \A j \in (i + 1)..Len(s) : s[j] # c
    ELSE 0

\* strings.Split(s, sep) for a one-character separator
RECURSIVE Split(_, _)
Split(s, sep) ==
    IF ~Contains(s, sep) THEN <<s>>
    ELSE <<SubSeq(s, 1, Index(s, sep) - 1)>>
         \o Split(SubSeq(s, Index(s, sep) + 1, Len(s)), sep)

\* strings.Join(parts, sep)
RECURSIVE Join(_, _)
Join(parts, sep) ==
    IF parts = <<>> THEN <<>>
    ELSE IF Len(parts) = 1 THEN parts[1]
    ELSE parts[1] \o <<sep>> \o Join(Tail(parts), sep)

\* config[fullKey] = value
Put(m, key, value) ==
    [k \in DOMAIN m \cup {key} |-> IF k = key THEN value ELSE m[k]]

\* a parse step that splits a line at its last "="
parseLineAtLastEquals(cfg, currentSection, line) ==
    IF Contains(line, "=")
    THEN LET i == LastIndex(line, "=")
             key == TrimSpace(SubSeq(line, 1, i - 1))
             value == TrimSpace(SubSeq(line, i + 1, Len(line)))
         IN  Put(cfg, currentSection \o <<".">> \o key, value)
    ELSE cfg

\* a parse step that records nothing while no section header has been read
parseLineDropsHeaderless(cfg, currentSection, line) ==
    IF Contains(line, "=") /\ currentSection # <<>>
    THEN LET i == Index(line, "=")
             key == TrimSpace(SubSeq(line, 1, i - 1))
             value == TrimSpace(SubSeq(line, i + 1, Len(line)))
         IN  Put(cfg, currentSection \o <<".">> \o key, value)
    ELSE cfg

\* the key-value branch of the loop of parseGitConfig
parseLine(cfg, currentSection, line) ==
    IF Contains(line, "=")
    THEN LET i == Index(line, "=")
             key == TrimSpace(SubSeq(line, 1, i - 1))
             value == TrimSpace(SubSeq(line, i + 1, Len(line)))
         IN  Put(cfg, currentSection \o <<".">> \o key, value)
    ELSE cfg

\* a loop that takes "#" alone to start a comment
RECURSIVE parseLinesHashOnly(_, _, _)
parseLinesHashOnly(lines, currentSection, cfg) ==
    IF lines = <<>> THEN cfg
    ELSE LET line == TrimSpace(Head(lines))
         IN  IF line = <<>> \/ HasPrefix(line, "#")
             THEN parseLinesHashOnly(Tail(lines), currentSection, cfg)
             ELSE IF HasPrefix(line, "[") /\ HasSuffix(line, "]")
             THEN parseLinesHashOnly(Tail(lines),
                                     TrimSuffix(TrimPrefix(line, "["), "]"), cfg)
             ELSE parseLinesHashOnly(Tail(lines), currentSection,
                                     parseLine(cfg, currentSection, line))

\* the loop of parseGitConfig over the lines
RECURSIVE parseLines(_, _, _)
parseLines(lines, currentSection, cfg) ==
    IF lines = <<>> THEN cfg
    ELSE LET line == TrimSpace(Head(lines))
         IN  IF line = <<>> \/ HasPrefix(line, "#") \/ HasPrefix(line, ";")
             THEN parseLines(Tail(lines), currentSection, cfg)
             ELSE IF HasPrefix(line, "[") /\ HasSuffix(line, "]")
             THEN parseLines(Tail(lines),
                             TrimSuffix(TrimPrefix(line, "["), "]"), cfg)
             ELSE parseLines(Tail(lines), currentSection,
                             parseLine(cfg, currentSection, line))

parseGitConfig(text) == parseLines(Split(text, "\n"), <<>>, <<>>)

\* a split that takes the first dotted part for the section and the last
\* for the key name, whatever lies between
sectionOfFirstAndLast(key) ==
    LET parts == Split(key, ".")
    IN  IF Len(parts) >= 2
        THEN [keep |-> TRUE, section |-> parts[1], keyName |-> parts[Len(parts)]]
        ELSE [keep |-> FALSE, section |-> <<>>, keyName |-> <<>>]

\* a split at the first dot of the key
sectionOfFirstDot(key) ==
    LET i == Index(key, ".")
    IN  IF i > 0
        THEN [keep |-> TRUE,
              section |-> SubSeq(key, 1, i - 1),
              keyName |-> SubSeq(key, i + 1, Len(key))]
        ELSE [keep |-> FALSE, section |-> <<>>, keyName |-> <<>>]

\* buildGitConfig, the grouping loop: the section and key name of a key, or
\* that the key is skipped
sectionOf(key) ==
    IF Contains(key, "\"")
    THEN LET lastDotIdx == LastIndex(key, ".") - 1
         IN  IF lastDotIdx > 0
             THEN [keep |-> TRUE,
                   section |-> SubSeq(key, 1, lastDotIdx),
                   keyName |-> SubSeq(key, lastDotIdx + 2, Len(key))]
             ELSE [keep |-> FALSE, section |-> <<>>, keyName |-> <<>>]
    ELSE LET parts == Split(key, ".")
         IN  IF Len(parts) >= 2
             THEN [keep |-> TRUE,
                   section |-> Join(SubSeq(parts, 1, Len(parts) - 1), "."),
                   keyName |-> parts[Len(parts)]]
             ELSE [keep |-> FALSE, section |-> <<>>, keyName |-> <<>>]

\* sectionMap of buildGitConfig: section -> key name -> value
sectionMap(cfg) ==
    LET kept == {key \in DOMAIN cfg : sectionOf(key).keep}
        sections == {sectionOf(key).section : key \in kept}
    IN  [sec \in sections |->
            [name \in {sectionOf(key).keyName :
                          key \in {x \in kept : sectionOf(x).section = sec}} |->
                cfg[CHOOSE key \in kept :
                       /\ sectionOf(key).section = sec
                       /\ sectionOf(key).keyName = name]]]

\* key lines written without their line break
RECURSIVE writeKeysNoNewline(_, _)
writeKeysNoNewline(values, keyOrder) ==
    IF keyOrder = <<>> THEN <<>>
    ELSE (IF Head(keyOrder) \in DOMAIN values
          THEN <<"\t">> \o Head(keyOrder) \o <<" ", "=", " ">>
               \o values[Head(keyOrder)]
          ELSE <<>>)
         \o writeKeysNoNewline(values, Tail(keyOrder))

\* "\t%s = %v\n" for the keys of one section, in the given order
RECURSIVE writeKeys(_, _)
writeKeys(values, keyOrder) ==
    IF keyOrder = <<>> THEN <<>>
    ELSE (IF Head(keyOrder) \in DOMAIN values
          THEN <<"\t">> \o Head(keyOrder) \o <<" ", "=", " ">>
               \o values[Head(keyOrder)] \o <<"\n">>
          ELSE <<>>)
         \o writeKeys(values, Tail(keyOrder))

\* "[%s]\n", the keys and a blank line for every section, in the given order
RECURSIVE writeSections(_, _, _)
writeSections(smap, sectionOrder, keyOrder) ==
    IF sectionOrder = <<>> THEN <<>>
    ELSE <<"[">> \o Head(sectionOrder) \o <<"]", "\n">>
         \o writeKeys(smap[Head(sectionOrder)], keyOrder)
         \o <<"\n">>
         \o writeSections(smap, Tail(sectionOrder), keyOrder)

\* every text buildGitConfig can return: the two range loops over maps run
\* in any order
buildGitConfig(cfg) ==
    LET smap == sectionMap(cfg)
        names == UNION {DOMAIN smap[sec] : sec \in DOMAIN smap}
    IN  {writeSections(smap, sectionOrder, keyOrder) :
            sectionOrder \in Orderings(DOMAIN smap),
            keyOrder \in Orderings(names)}

-----------------------------------------------------------------------------
(* The codec driven on texts *)

\* how many lines a text holds at most, and how many codec calls a run makes
MaxLines == 3
MaxCalls == 3

HeaderLines ==
    { <<"[", "a", "]">>,
      <<"[", "a", ".", "b", "]">>,
      <<"[", "u", " ", "\"", "x", ".", "y", "\"", "]">> }

KeyValueLines ==
    { <<"\t", "k", " ", "=", " ", "v">>,
      <<"n", "=", "v", "=", "w">>,
      <<" ", "k", " ", "=", " ">>,
      <<"n", " ", "=", " ", "p", " ", "q", " ">> }

\* a line whose key is no git variable name
OddKeyLines ==
    { <<"q", "\"", " ", "=", " ", "v">> }

LinePool == HeaderLines \cup KeyValueLines \cup OddKeyLines

\* the lines, each ended by a newline
RECURSIVE Text(_)
Text(lines) ==
    IF lines = <<>> THEN <<>>
    ELSE Head(lines) \o <<"\n">> \o Text(Tail(lines))

TextPool ==
    {Text(lines) : lines \in UNION {[1..n -> LinePool] : n \in 0..MaxLines}}

InitCodec ==
    /\ Global = <<>>
    /\ Profiles = <<>>
    /\ Current = ""
    /\ ret = Return("NewConfig", "", NoError, "")
    /\ configFile = AbsentFile
    /\ gitIdentity = Identity(FALSE, "", FALSE, "")
    /\ saved = NothingSaved
    /\ content \in TextPool
    /\ config = <<>>
    /\ calls = <<>>
    /\ source = content
    /\ builtFrom = <<>>
    /\ gitConfigFile = NoFile
    /\ backupFile = NoFile
    /\ originalContent = NoBackup
    /\ commands = NoCommands

\* Git.ReadConfig on a file that holds content
ParseGitConfig ==
    /\ Len(calls) < MaxCalls
    /\ config' = parseGitConfig(content)
    /\ calls' = Append(calls, "parse")
    /\ UNCHANGED <<content, source, builtFrom>>
    /\ UNCHANGED <<storeVars, gitVars, commands>>

\* Git.WriteConfig of config
BuildGitConfig ==
    /\ Len(calls) < MaxCalls
    /\ content' \in buildGitConfig(config)
    /\ builtFrom' = config
    /\ calls' = Append(calls, "build")
    /\ UNCHANGED <<config, source>>
    /\ UNCHANGED <<storeVars, gitVars, commands>>

NextCodec ==
    \/ ParseGitConfig
    \/ BuildGitConfig

SpecCodec == InitCodec /\ [][NextCodec]_vars

-----------------------------------------------------------------------------
(* parseGitConfig, buildGitConfig: C10 *)

\* the characters of a git variable name
KeyChars ==
    {"a", "b", "c", "d", "e", "f", "g", "h", "i", "j", "k", "l", "m", "n", "o",
     "p", "q", "r", "s", "t", "u", "v", "w", "x", "y", "z",
     "A", "B", "C", "D", "E", "F", "G", "H", "I", "J", "K", "L", "M", "N", "O",
     "P", "Q", "R", "S", "T", "U", "V", "W", "X", "Y", "Z",
     "0", "1", "2", "3", "4", "5", "6", "7", "8", "9", "-"}

IsHeaderLine(line) == HasPrefix(line, "[") /\ HasSuffix(line, "]")

\* key = value with a key that is a variable name
IsKeyValueLine(line) ==
    /\ Contains(line, "=")
    /\ LET key == TrimSpace(SubSeq(line, 1, Index(line, "=") - 1))
       IN  key # <<>> /\ \A i \in 1..Len(key) : key[i] \in KeyChars

\* a text of section headers and key = value lines only
ValidText(text) ==
    \A i \in 1..Len(Split(text, "\n")) :
        LET line == TrimSpace(Split(text, "\n")[i])
        IN  line = <<>> \/ IsHeaderLine(line) \/ IsKeyValueLine(line)

RoundTripped == calls = <<"parse", "build", "parse">>

\* C10: for a text of valid section headers and key = value lines,
\* Parse(Build(Parse(text))) equals Parse(text), whatever order Build wrote
\* the sections and keys in.
C10_BuildParseRoundTrip ==
    RoundTripped /\ ValidText(source) => config = builtFrom

\* a round trip over a text with a quoted subsection that holds a dot and a
\* value that holds "=", written back as another text
C10_Witness ==
    /\ RoundTripped
    /\ ValidText(source)
    /\ content # source
    /\ config = builtFrom
    /\ Cardinality(DOMAIN config) >= 2
    /\ \E key \in DOMAIN config :
          /\ Contains(key, "\"")
          /\ Contains(config[key], "=")

\* the statement without the restriction to variable names does not hold
C10_AnyKeyRoundTrip ==
    RoundTripped => config = builtFrom

-----------------------------------------------------------------------------
(* The codec driven on flat mappings: Git.WriteConfig of a map, then        *)
(* Git.ReadConfig of what was written                                       *)

\* how many keys a mapping holds at most
MaxKeys == 2

KeyPool ==
    { <<"a", ".", "b">>,
      <<"a", ".", "c">>,
      <<"a", ".", "b", ".", "c">>,
      <<"n">>,
      <<"u", " ", "\"", "x", ".", "y", "\"", ".", "i">>,
      <<".", "q", "\"">>,
      <<"a", ".", "#", "b">> }

ValuePool ==
    { <<"v">>,
      <<" ", "w">>,
      <<"x", "=", "y">> }

MapPool ==
    UNION {[keys -> ValuePool] :
              keys \in {K \in SUBSET KeyPool : Cardinality(K) <= MaxKeys}}

InitBuild ==
    /\ Global = <<>>
    /\ Profiles = <<>>
    /\ Current = ""
    /\ ret = Return("NewConfig", "", NoError, "")
    /\ configFile = AbsentFile
    /\ gitIdentity = Identity(FALSE, "", FALSE, "")
    /\ saved = NothingSaved
    /\ content = <<>>
    /\ config \in MapPool
    /\ calls = <<>>
    /\ source = content
    /\ builtFrom = <<>>
    /\ gitConfigFile = NoFile
    /\ backupFile = NoFile
    /\ originalContent = NoBackup
    /\ commands = NoCommands

SpecBuild == InitBuild /\ [][NextCodec]_vars

-----------------------------------------------------------------------------
(* The codec driven on texts that hold comments and blank lines             *)

CommentLines ==
    { <<>>,
      <<" ", "\t">>,
      <<"#", " ", "[", "b", "]">>,
      <<"\t", ";", " ", "k", " ", "=", " ", "x">>,
      <<"#", "k", "=", "x">> }

CommentedLinePool ==
    CommentLines
    \cup { <<"[", "a", "]">>,
           <<"\t", "k", " ", "=", " ", "v">>,
           <<"n", "=", "w">> }

CommentedTextPool ==
    {Text(lines) :
        lines \in UNION {[1..n -> CommentedLinePool] : n \in 0..MaxLines}}

InitComments ==
    /\ Global = <<>>
    /\ Profiles = <<>>
    /\ Current = ""
    /\ ret = Return("NewConfig", "", NoError, "")
    /\ configFile = AbsentFile
    /\ gitIdentity = Identity(FALSE, "", FALSE, "")
    /\ saved = NothingSaved
    /\ content \in CommentedTextPool
    /\ config = <<>>
    /\ calls = <<>>
    /\ source = content
    /\ builtFrom = <<>>
    /\ gitConfigFile = NoFile
    /\ backupFile = NoFile
    /\ originalContent = NoBackup
    /\ commands = NoCommands

SpecComments == InitComments /\ [][NextCodec]_vars

-----------------------------------------------------------------------------
(* What a git config text says, line by line                                *)

Lines(text) == Split(text, "\n")

\* a blank line or a comment
IsIgnored(line) ==
    LET l == TrimSpace(line)
    IN  l = <<>> \/ Head(l) \in {"#", ";"}

IsHeader(line) == ~IsIgnored(line) /\ IsHeaderLine(TrimSpace(line))

\* a key = value line
IsEntry(line) == ~IsIgnored(line) /\ ~IsHeader(line) /\ Contains(line, "=")

Entries(lines) == {i \in 1..Len(lines) : IsEntry(lines[i])}

\* the header line that governs line i, 0 when none precedes it
HeaderBefore(lines, i) ==
    LET hs == {j \in 1..(i - 1) : IsHeader(lines[j])}
    IN  IF hs = {} THEN 0 ELSE CHOOSE j \in hs : \A h \in hs : h <= j

\* the text between the brackets of that header
SectionAt(lines, i) ==
    IF HeaderBefore(lines, i) = 0 THEN <<>>
    ELSE LET l == TrimSpace(lines[HeaderBefore(lines, i)])
         IN  SubSeq(l, 2, Len(l) - 1)

KeyAt(line) == TrimSpace(SubSeq(line, 1, Index(line, "=") - 1))

ValueAt(line) == TrimSpace(SubSeq(line, Index(line, "=") + 1, Len(line)))

FullKeyAt(lines, i) == SectionAt(lines, i) \o <<".">> \o KeyAt(lines[i])

\* the last entry line that writes the same key as entry line i
LastFor(lines, i) ==
    LET same == {j \in Entries(lines) : FullKeyAt(lines, j) = FullKeyAt(lines, i)}
    IN  CHOOSE j \in same : \A h \in same : h <= j

\* the lines without the blank lines and comments
Kept(lines) == SelectSeq(lines, LAMBDA line : ~IsIgnored(line))

ParsedOnce == calls = <<"parse">>

-----------------------------------------------------------------------------
(* buildGitConfig then parseGitConfig: C11 *)

\* a key before and after its last dot
PrefixOf(key) == SubSeq(key, 1, LastIndex(key, ".") - 1)
LeafOf(key) == SubSeq(key, LastIndex(key, ".") + 1, Len(key))

IsVariableName(s) == s # <<>> /\ \A i \in 1..Len(s) : s[i] \in KeyChars

\* every key holds a dot and no quote
Dotted(m) ==
    \A key \in DOMAIN m : Contains(key, ".") /\ ~Contains(key, "\"")

\* and ends in a variable name, and every value is one line of text with no
\* blanks around it
Plain(m) ==
    /\ Dotted(m)
    /\ \A key \in DOMAIN m :
          /\ IsVariableName(LeafOf(key))
          /\ ~Contains(key, "\n")
          /\ ~Contains(m[key], "\n")
          /\ TrimSpace(m[key]) = m[key]

BuiltAndParsed == calls = <<"build", "parse">>

\* C11, as amended: for a flat mapping whose keys hold a dot and no quote
\* and end, after the last dot, in a variable name, and whose values are
\* single lines without leading or trailing blanks, Parse(Build(m)) equals
\* m: the same keys, each with the same value.
C11_ParseBuildRoundTrip ==
    BuiltAndParsed /\ Plain(builtFrom) => config = builtFrom

\* two keys, one of them with two dots, one value with "=" in it
C11_Witness ==
    /\ BuiltAndParsed
    /\ Plain(builtFrom)
    /\ config = builtFrom
    /\ Cardinality(DOMAIN config) >= 2
    /\ \E key \in DOMAIN config : Contains(PrefixOf(key), ".")
    /\ \E key \in DOMAIN config : Contains(config[key], "=")

\* C11 as it is stated: for any flat mapping whose keys all hold a dot and no
\* quote, Parse(Build(m)) equals m.
C11_AnyDottedMapping ==
    BuiltAndParsed /\ Dotted(builtFrom) => config = builtFrom

-----------------------------------------------------------------------------
(* parseGitConfig: C12 - C14 *)

\* C12: blank lines and lines that start, after trimming, with # or ; add no
\* entry and leave the current section as it is: the result has one entry for
\* every distinct section.key of the other key = value lines, with the value
\* those lines give it.
C12_ParseIgnoresComments ==
    ParsedOnce =>
        LET lines == Kept(Lines(source))
        IN  /\ DOMAIN config = {FullKeyAt(lines, i) : i \in Entries(lines)}
            /\ \A i \in Entries(lines) :
                  config[FullKeyAt(lines, i)] = ValueAt(lines[LastFor(lines, i)])

\* a header, then a comment that would read as key = value, then an entry
C12_Witness ==
    /\ ParsedOnce
    /\ Cardinality(DOMAIN config) = 1
    /\ LET lines == Lines(source)
       IN  \E h, c, e \in 1..Len(lines) :
              /\ h < c /\ c < e
              /\ IsHeader(lines[h])
              /\ IsIgnored(lines[c]) /\ Contains(lines[c], "=")
              /\ IsEntry(lines[e])
              /\ SectionAt(lines, e) = TrimSuffix(TrimPrefix(lines[h], "["), "]")

\* C13: every key = value line is recorded under currentSection.key, the
\* section being the text between the brackets of the latest header line,
\* the key the trimmed text before the first "=", the value the trimmed text
\* after it; of two lines with the same section and key the later one
\* gives the value.
C13_ParseRecordsEntries ==
    ParsedOnce =>
        LET lines == Lines(source)
        IN  \A i \in Entries(lines) :
               /\ FullKeyAt(lines, i) \in DOMAIN config
               /\ config[FullKeyAt(lines, i)] = ValueAt(lines[LastFor(lines, i)])

\* a key written twice under a header, the later value holding "="
C13_Witness ==
    /\ ParsedOnce
    /\ LET lines == Lines(source)
       IN  \E i, j \in Entries(lines) :
              /\ i < j
              /\ HeaderBefore(lines, i) > 0
              /\ FullKeyAt(lines, i) = FullKeyAt(lines, j)
              /\ ValueAt(lines[i]) # ValueAt(lines[j])
              /\ Contains(ValueAt(lines[j]), "=")
              /\ config[FullKeyAt(lines, i)] = ValueAt(lines[j])

\* C14, as amended: a key = value line that comes before any section header
\* is recorded under "." followed by its key, the section prefix being
\* empty.
C14_HeaderlessRecorded ==
    ParsedOnce =>
        LET lines == Lines(source)
        IN  \A i \in Entries(lines) :
               HeaderBefore(lines, i) = 0 =>
                   /\ (<<".">> \o KeyAt(lines[i])) \in DOMAIN config
                   /\ config[<<".">> \o KeyAt(lines[i])]
                          = ValueAt(lines[LastFor(lines, i)])

\* a line before the first header and a line after it, both recorded
C14_Witness ==
    /\ ParsedOnce
    /\ Cardinality(DOMAIN config) = 2
    /\ LET lines == Lines(source)
       IN  \E i, j \in Entries(lines) :
              /\ HeaderBefore(lines, i) = 0
              /\ HeaderBefore(lines, j) > 0
              /\ Head(FullKeyAt(lines, i)) = "."
              /\ FullKeyAt(lines, i) \in DOMAIN config

\* C14 as it is stated: a key = value line before any header contributes no
\* entry, so every entry of the result comes from a line under a header.
C14_HeaderlessDropped ==
    ParsedOnce =>
        LET lines == Lines(source)
        IN  \A key \in DOMAIN config :
               \E i \in Entries(lines) :
                  HeaderBefore(lines, i) > 0 /\ FullKeyAt(lines, i) = key

-----------------------------------------------------------------------------
(* buildGitConfig: C15, C16 *)

BuiltOnce == calls = <<"build">>

HeaderOf(section) == <<"[">> \o section \o <<"]">>

EntryOf(leaf, value) == <<"\t">> \o leaf \o <<" ", "=", " ">> \o value

\* the text holds the header of the section and, before the next header,
\* the line of the leaf
Emitted(text, section, leaf, value) ==
    LET lines == Lines(text)
    IN  \E h, l \in 1..Len(lines) :
           /\ h < l
           /\ lines[h] = HeaderOf(section)
           /\ lines[l] = EntryOf(leaf, value)
           /\ \A j \in (h + 1)..(l - 1) : ~HasPrefix(lines[j], "[")

WithDot(m) == [key \in {k \in DOMAIN m : Contains(k, ".")} |-> m[key]]

\* C15: Build drops every key without a dot (no header and no line for it)
\* and emits every other key of the mapping; the text is one that Build
\* gives for the mapping without the dropped keys.
C15_BuildDropsDotlessOnly ==
    BuiltOnce =>
        /\ \A key \in DOMAIN builtFrom :
              IF Contains(key, ".")
              THEN Emitted(content, PrefixOf(key), LeafOf(key), builtFrom[key])
              ELSE \A i \in 1..Len(Lines(content)) :
                      /\ Lines(content)[i] # HeaderOf(key)
                      /\ Lines(content)[i] # EntryOf(key, builtFrom[key])
        /\ content \in buildGitConfig(WithDot(builtFrom))

\* the part of C15 about keys without a dot holds
C15_DotlessDropped ==
    BuiltOnce =>
        /\ \A key \in DOMAIN builtFrom :
              ~Contains(key, ".") =>
                  \A i \in 1..Len(Lines(content)) :
                      /\ Lines(content)[i] # HeaderOf(key)
                      /\ Lines(content)[i] # EntryOf(key, builtFrom[key])
        /\ content \in buildGitConfig(WithDot(builtFrom))

\* C16: a key with a section before its last dot goes to that section with
\* the text after the last dot as leaf, whether the dots before it stand
\* inside a quoted subsection or between unquoted names: the text holds the
\* header [section] and under it the line leaf = value.
C16_BuildSplitsAtLastDot ==
    BuiltOnce =>
        \A key \in DOMAIN builtFrom :
           LastIndex(key, ".") > 1 =>
               Emitted(content, PrefixOf(key), LeafOf(key), builtFrom[key])

\* a quoted subsection with a dot in it beside an unquoted key of two dots
C16_Witness ==
    /\ BuiltOnce
    /\ \E q, k \in DOMAIN builtFrom :
          /\ Contains(PrefixOf(q), "\"") /\ Contains(PrefixOf(q), ".")
          /\ ~Contains(k, "\"") /\ Contains(PrefixOf(k), ".")
          /\ Emitted(content, PrefixOf(q), LeafOf(q), builtFrom[q])
          /\ Emitted(content, PrefixOf(k), LeafOf(k), builtFrom[k])

-----------------------------------------------------------------------------
(* Go strings on their way into the git config text.  The store holds its  *)
(* strings whole, the codec reads and writes characters: Chars spells the  *)
(* strings that the profiles switched to are made of.                      *)

Chars ==
    ("user" :> <<"u", "s", "e", "r">>) @@
    ("name" :> <<"n", "a", "m", "e">>) @@
    ("email" :> <<"e", "m", "a", "i", "l">>) @@
    ("signingkey" :> <<"s", "i", "g", "n", "i", "n", "g", "k", "e", "y">>) @@
    ("insteadOf" :> <<"i", "n", "s", "t", "e", "a", "d", "O", "f">>) @@
    ("http" :> <<"h", "t", "t", "p">>) @@
    ("core" :> <<"c", "o", "r", "e">>) @@
    ("interactive" :> <<"i", "n", "t", "e", "r", "a", "c", "t", "i", "v", "e">>) @@
    ("add" :> <<"a", "d", "d">>) @@
    ("delta" :> <<"d", "e", "l", "t", "a">>) @@
    ("push" :> <<"p", "u", "s", "h">>) @@
    ("merge" :> <<"m", "e", "r", "g", "e">>) @@
    ("commit" :> <<"c", "o", "m", "m", "i", "t">>) @@
    ("gpg" :> <<"g", "p", "g">>) @@
    ("pull" :> <<"p", "u", "l", "l">>) @@
    ("rerere" :> <<"r", "e", "r", "e", "r", "e">>) @@
    ("column" :> <<"c", "o", "l", "u", "m", "n">>) @@
    ("branch" :> <<"b", "r", "a", "n", "c", "h">>) @@
    ("init" :> <<"i", "n", "i", "t">>) @@
    ("editor" :> <<"e", "d", "i", "t", "o", "r">>) @@
    ("autocrlf" :> <<"a", "u", "t", "o", "c", "r", "l", "f">>) @@
    ("nano" :> <<"n", "a", "n", "o">>) @@
    ("false" :> <<"f", "a", "l", "s", "e">>) @@
    ("true" :> <<"t", "r", "u", "e">>) @@
    ("Work User" :> <<"W", "o", "r", "k", " ", "U", "s", "e", "r">>) @@
    ("work@example.com" :> <<"w", "o", "r", "k", "@", "e", "x", "a", "m", "p", "l", "e", ".", "c", "o", "m">>) @@
    ("Test User" :> <<"T", "e", "s", "t", " ", "U", "s", "e", "r">>) @@
    ("ssh://git@github.com/" :> <<"s", "s", "h", ":", "/", "/", "g", "i", "t", "@", "g", "i", "t", "h", "u", "b", ".", "c", "o", "m", "/">>) @@
    ("https://github.com/" :> <<"h", "t", "t", "p", "s", ":", "/", "/", "g", "i", "t", "h", "u", "b", ".", "c", "o", "m", "/">>) @@
    ("ssh://git@gitlab.com/" :> <<"s", "s", "h", ":", "/", "/", "g", "i", "t", "@", "g", "i", "t", "l", "a", "b", ".", "c", "o", "m", "/">>) @@
    ("https://gitlab.com/" :> <<"h", "t", "t", "p", "s", ":", "/", "/", "g", "i", "t", "l", "a", "b", ".", "c", "o", "m", "/">>) @@
    ("alias" :> <<"a", "l", "i", "a", "s">>) @@
    ("co" :> <<"c", "o">>) @@
    ("checkout" :> <<"c", "h", "e", "c", "k", "o", "u", "t">>) @@
    (" Test User" :> <<" ", "T", "e", "s", "t", " ", "U", "s", "e", "r">>) @@
    ("test@example.com" :> <<"t", "e", "s", "t", "@", "e", "x", "a", "m", "p", "l", "e", ".", "c", "o", "m">>) @@
    ("diff" :> <<"d", "i", "f", "f">>) @@
    ("feature" :> <<"f", "e", "a", "t", "u", "r", "e">>) @@
    ("fetch" :> <<"f", "e", "t", "c", "h">>) @@
    ("maintenance" :> <<"m", "a", "i", "n", "t", "e", "n", "a", "n", "c", "e">>) @@
    ("rebase" :> <<"r", "e", "b", "a", "s", "e">>) @@
    ("tag" :> <<"t", "a", "g">>) @@
    ("ABCD1234" :> <<"A", "B", "C", "D", "1", "2", "3", "4">>) @@
    ("useBuiltin" :> <<"u", "s", "e", "B", "u", "i", "l", "t", "i", "n">>) @@
    ("level1" :> <<"l", "e", "v", "e", "l", "1">>) @@
    ("level2" :> <<"l", "e", "v", "e", "l", "2">>) @@
    ("level3" :> <<"l", "e", "v", "e", "l", "3">>) @@
    ("deepvalue" :> <<"d", "e", "e", "p", "v", "a", "l", "u", "e">>) @@
    ("git://github.com/" :> <<"g", "i", "t", ":", "/", "/", "g", "i", "t", "h", "u", "b", ".", "c", "o", "m", "/">>) @@
    ("default" :> <<"d", "e", "f", "a", "u", "l", "t">>) @@
    ("simple" :> <<"s", "i", "m", "p", "l", "e">>) @@
    ("navigate" :> <<"n", "a", "v", "i", "g", "a", "t", "e">>)

\* the string that is spelled cs; a text that spells none of them is some
\* other string
StrOf(cs) ==
    IF \E str \in DOMAIN Chars : Chars[str] = cs
    THEN CHOOSE str \in DOMAIN Chars : Chars[str] = cs
    ELSE "(other)"

\* fmt.Sprintf("%v", v) of a leaf value: a scalar, nil or a list of them
RECURSIVE fmtValue(_)
fmtValue(x) ==
    CASE x.t = "nil" -> <<"<", "n", "i", "l", ">">>
      [] x.t = "list" ->
           <<"[">> \o Join([i \in 1..Len(x.v) |-> fmtValue(x.v[i])], " ") \o <<"]">>
      [] OTHER -> Chars[x.v]

\* addSectionToConfigRecursive: the assignments config[key] = v it makes for
\* the values under prefix, as <<key, value>> pairs
RECURSIVE addSectionToConfigRecursive(_, _)
addSectionToConfigRecursive(prefix, values) ==
    UNION {IF values[k].t = "map"
           THEN addSectionToConfigRecursive(prefix \o <<".">> \o Chars[k],
                                            values[k].v)
           ELSE {<<prefix \o <<".">> \o Chars[k], fmtValue(values[k])>>} :
           k \in DOMAIN values}

\* the sections profileToGitConfig passes to addSectionToConfig
AppliedSections ==
    <<"http", "core", "interactive", "add", "delta", "push", "merge",
      "commit", "gpg", "pull", "rerere", "column", "branch", "init">>

\* the key of a URL rewrite: url "<pattern>".insteadOf
urlKey(url) ==
    <<"u", "r", "l", " ", "\"">> \o Chars[url.Pattern]
        \o <<"\"", ".">> \o Chars["insteadOf"]

\* the assignments of profileToGitConfig before the sections: a later rule
\* for the same pattern replaces an earlier one
userAndURL(profile) ==
    LET user ==
            (IF profile.User.Name # ""
             THEN (Chars["user"] \o <<".">> \o Chars["name"])
                      :> Chars[profile.User.Name]
             ELSE <<>>)
            @@ (IF profile.User.Email # ""
                THEN (Chars["user"] \o <<".">> \o Chars["email"])
                         :> Chars[profile.User.Email]
                ELSE <<>>)
            @@ (IF profile.User.SigningKey # ""
                THEN (Chars["user"] \o <<".">> \o Chars["signingkey"])
                         :> Chars[profile.User.SigningKey]
                ELSE <<>>)
        last(key) ==
            CHOOSE i \in 1..Len(profile.URL) :
               /\ urlKey(profile.URL[i]) = key
               /\ \A j \in (i + 1)..Len(profile.URL) :
                     urlKey(profile.URL[j]) # key
        urls == [key \in {urlKey(profile.URL[i]) : i \in 1..Len(profile.URL)} |->
                    Chars[profile.URL[last(key)].InsteadOf]]
    IN  user @@ urls

\* profileToGitConfig: every flat map it can return.  Two assignments to one
\* key come from one section (a dotted key beside a nested map) and the
\* range over the section decides which is the later one.
profileToGitConfig(profile) ==
    LET written == UNION {addSectionToConfigRecursive(
                              Chars[AppliedSections[i]],
                              GetSection(profile, AppliedSections[i])) :
                          i \in 1..Len(AppliedSections)}
        keys == {w[1] : w \in written}
        first == userAndURL(profile)
    IN  {mapsCopy(first, sections) :
            sections \in {f \in [keys -> {w[2] : w \in written}] :
                             \A key \in keys : <<key, f[key]>> \in written}}

\* what git config --global user.name and user.email answer for a git
\* config file: git reads the file itself, and on the texts written here
\* it reads what parseGitConfig reads
probe(file) ==
    IF file.kind # "file" THEN Identity(FALSE, "", FALSE, "")
    ELSE LET cfg == parseGitConfig(file.text)
             name == Chars["user"] \o <<".">> \o Chars["name"]
             email == Chars["user"] \o <<".">> \o Chars["email"]
         IN  Identity(name \in DOMAIN cfg,
                      IF name \in DOMAIN cfg THEN StrOf(cfg[name]) ELSE "",
                      email \in DOMAIN cfg,
                      IF email \in DOMAIN cfg THEN StrOf(cfg[email]) ELSE "")

-----------------------------------------------------------------------------
(* Git: the global git config file and its backup                           *)

ErrReadForBackup == "failed to read git config for backup"
ErrCreateBackup == "failed to create backup"
ErrReadBackup == "failed to read backup"
ErrRestore == "failed to restore config"
ErrWriteGit == "failed to write git config"

\* os.WriteFile(path, data, 0o644) writes the whole file, or fails before it
\* opened the file, or fails after it truncated it
WriteOutcomes == {"written", "refused", "cut"}

WriteFile(old, data, outcome) ==
    CASE outcome = "written" -> TextFile(data)
      [] outcome = "refused" -> old
      [] OTHER -> TextFile(<<>>)

\* a backup that leaves an empty backup file when there is no git config
backupConfigAlways(git, backup, outcome) ==
    CASE git.kind = "unreadable" -> [err |-> ErrReadForBackup, file |-> backup]
      [] OTHER ->
           [err |-> IF outcome = "written" THEN NoError ELSE ErrCreateBackup,
            file |-> WriteFile(backup, git.text, outcome)]

\* Git.BackupConfig: the error it returns and the backup file it leaves
backupConfig(git, backup, outcome) ==
    CASE git.kind = "absent" -> [err |-> NoError, file |-> backup]
      [] git.kind = "unreadable" -> [err |-> ErrReadForBackup, file |-> backup]
      [] OTHER ->
           [err |-> IF outcome = "written" THEN NoError ELSE ErrCreateBackup,
            file |-> WriteFile(backup, git.text, outcome)]

\* a restore that copies the other way, the git config over the backup
restoreConfigReversed(git, backup, outcome) ==
    IF backup.kind # "file"
    THEN [err |-> ErrReadBackup, file |-> git, kept |-> backup]
    ELSE [err |-> IF outcome = "written" THEN NoError ELSE ErrRestore,
          file |-> git,
          kept |-> WriteFile(backup, git.text, outcome)]

\* Git.RestoreConfig: the error it returns, the git config file it leaves
\* and the backup file, which it only reads
restoreConfig(git, backup, outcome) ==
    IF backup.kind # "file"
    THEN [err |-> ErrReadBackup, file |-> git, kept |-> backup]
    ELSE [err |-> IF outcome = "written" THEN NoError ELSE ErrRestore,
          file |-> WriteFile(git, backup.text, outcome),
          kept |-> backup]

\* a write that patches the file in place: the new text after the old one
writeConfigAppends(git, text, outcome) ==
    [err |-> IF outcome = "written" THEN NoError ELSE ErrWriteGit,
     file |-> WriteFile(git, git.text \o text, outcome)]

\* Git.WriteConfig of an already built text
writeConfig(git, text, outcome) ==
    [err |-> IF outcome = "written" THEN NoError ELSE ErrWriteGit,
     file |-> WriteFile(git, text, outcome)]

\* the copy the backup file holds after a backup of git that left file
copied(git, before, after, err) ==
    IF git.kind = "file" /\ err = NoError
    THEN [ok |-> TRUE, text |-> git.text]
    ELSE IF after = before THEN originalContent ELSE NoBackup

GitBackupConfig ==
    /\ \E outcome \in WriteOutcomes :
          LET done == backupConfig(gitConfigFile, backupFile, outcome)
          IN  /\ backupFile' = done.file
              /\ originalContent' =
                     copied(gitConfigFile, backupFile, done.file, done.err)
              /\ ret' = Return("BackupConfig", "", done.err, "")
    /\ UNCHANGED <<Global, Profiles, Current, configFile, gitIdentity, saved>>
    /\ UNCHANGED <<gitConfigFile, codecVars, commands>>

GitRestoreConfig ==
    /\ \E outcome \in WriteOutcomes :
          LET done == restoreConfig(gitConfigFile, backupFile, outcome)
          IN  /\ gitConfigFile' = done.file
              /\ backupFile' = done.kept
              /\ originalContent' =
                     IF done.kept = backupFile THEN originalContent ELSE NoBackup
              /\ gitIdentity' = probe(done.file)
              /\ ret' = Return("RestoreConfig", "", done.err, "")
    /\ UNCHANGED <<Global, Profiles, Current, configFile, saved>>
    /\ UNCHANGED <<codecVars, commands>>

GitWriteConfig(cfg) ==
    /\ \E outcome \in WriteOutcomes, text \in buildGitConfig(cfg) :
          LET done == writeConfig(gitConfigFile, text, outcome)
          IN  /\ gitConfigFile' = done.file
              /\ gitIdentity' = probe(done.file)
              /\ ret' = Return("WriteConfig", "", done.err, "")
    /\ UNCHANGED <<Global, Profiles, Current, configFile, saved>>
    /\ UNCHANGED <<backupFile, originalContent, codecVars, commands>>

\* the user, or git itself, rewrites, protects or deletes the git config
EditGitConfigFile(f) ==
    /\ gitConfigFile' = f
    /\ gitIdentity' = probe(f)
    /\ ret' = Return("EditGitConfigFile", "", NoError, "")
    /\ UNCHANGED <<Global, Profiles, Current, configFile, saved>>
    /\ UNCHANGED <<backupFile, originalContent, codecVars, commands>>

\* "[u]\n\tn = O\n" and "[u]\n\tn = M\n"
OriginalText == <<"[", "u", "]", "\n", "\t", "n", " ", "=", " ", "O", "\n">>
ModifiedText == <<"[", "u", "]", "\n", "\t", "n", " ", "=", " ", "M", "\n">>

GitFilePool ==
    {NoFile, Unreadable(<<>>), TextFile(OriginalText), TextFile(ModifiedText)}

WritePool ==
    { (<<"u", ".", "n">> :> <<"T">>),
      (<<"u", ".", "n">> :> <<"T">>) @@ (<<"c", ".", "e">> :> <<"v">>) }

NextGit ==
    \/ GitBackupConfig
    \/ GitRestoreConfig
    \/ \E cfg \in WritePool : GitWriteConfig(cfg)
    \/ \E f \in GitFilePool : EditGitConfigFile(f)

SpecGit == Init /\ [][NextGit]_vars

-----------------------------------------------------------------------------
(* Git.BackupConfig, Git.RestoreConfig: C17, C18 *)

\* C17: once BackupConfig has succeeded on an existing git config file with
\* content c, then, however often the git config file is overwritten
\* afterwards, a RestoreConfig that succeeds leaves the git config file with
\* exactly c, and the backup file still holds c.
C17_BackupRestoreRoundTrip ==
    ret.op = "RestoreConfig" /\ ret.err = NoError /\ originalContent.ok =>
        /\ gitConfigFile = TextFile(originalContent.text)
        /\ backupFile = TextFile(originalContent.text)

\* restored the original text after the git config file had been removed
C17_Witness ==
    /\ ret.op = "RestoreConfig" /\ ret.err = NoError
    /\ originalContent = [ok |-> TRUE, text |-> OriginalText]
    /\ gitConfigFile = TextFile(OriginalText)
    /\ backupFile = TextFile(OriginalText)

\* C18: without a git config file BackupConfig returns no error and leaves
\* the backup file as it is, absent or not; without a backup file
\* RestoreConfig returns an error and leaves the git config file as it is.
C18_MissingSourceFiles ==
    [][/\ (ret'.op = "BackupConfig" /\ gitConfigFile.kind = "absent" =>
              /\ ret'.err = NoError
              /\ backupFile' = backupFile
              /\ gitConfigFile' = gitConfigFile)
       /\ (ret'.op = "RestoreConfig" /\ backupFile.kind = "absent" =>
              /\ ret'.err # NoError
              /\ gitConfigFile' = gitConfigFile
              /\ backupFile' = backupFile)]_vars

\* a backup without a git config file, an older backup file still in place
C18_Witness ==
    /\ ret = Return("BackupConfig", "", NoError, "")
    /\ gitConfigFile.kind = "absent"
    /\ backupFile = TextFile(OriginalText)

\* a restore without a backup file, the git config file in place
C18_WitnessRestore ==
    /\ ret = Return("RestoreConfig", "", ErrReadBackup, "")
    /\ backupFile.kind = "absent"
    /\ gitConfigFile = TextFile(ModifiedText)

-----------------------------------------------------------------------------
(* The switch command: runSwitch                                            *)

ErrLoadConfig == "failed to load config"
ErrProfileNotFound == "profile not found"
ErrSaveConfig == "failed to save config"

\* a lookup that answers an unknown name with the zero profile
getProfileZero(profiles, name) ==
    IF name \in DOMAIN profiles
    THEN [err |-> NoError, profile |-> profiles[name]]
    ELSE [err |-> NoError, profile |-> EmptyProfile]

\* cfg.GetProfile(name) on the store a command has loaded
getProfile(profiles, name) ==
    IF name \in DOMAIN profiles
    THEN [err |-> NoError, profile |-> profiles[name]]
    ELSE [err |-> ErrDoesNotExist, profile |-> NilProfile]

\* one run of `git-context switch profileName`; ret.val is the git config
\* file as the run found it
RunSwitch(profileName) ==
    IF configFile.kind \in {"unreadable", "malformed"}
    THEN /\ ret' = Return("runSwitch", profileName, ErrLoadConfig, gitConfigFile)
         /\ UNCHANGED <<Global, Profiles, Current, configFile, gitIdentity, saved>>
         /\ UNCHANGED <<codecVars, commands, gitVars>>
    ELSE LET global == IF configFile.kind = "absent" THEN <<>>
                       ELSE UnmarshalGlobal(configFile.doc)
             profiles == IF configFile.kind = "absent" THEN <<>>
                         ELSE UnmarshalProfiles(configFile.doc)
         IN  \E current \in DOMAIN profiles \cup {""} :
                /\ IF configFile.kind = "absent" THEN current = ""
                   ELSE determineCurrent(profiles, gitIdentity, current)
                /\ Global' = global
                /\ Profiles' = profiles
                /\ UNCHANGED <<codecVars, commands>>
                /\ IF getProfile(profiles, profileName).err # NoError
                   THEN /\ Current' = current
                        /\ ret' = Return("runSwitch", profileName,
                                         ErrProfileNotFound, gitConfigFile)
                        /\ UNCHANGED <<configFile, gitIdentity, saved, gitVars>>
                   ELSE \E backup, write \in WriteOutcomes, saves \in BOOLEAN,
                           flat \in profileToGitConfig(
                                        mergedProfile(global,
                                            getProfile(profiles, profileName).profile)) :
                         \E text \in buildGitConfig(flat) :
                           LET backed == backupConfig(gitConfigFile, backupFile, backup)
                               wrote == writeConfig(gitConfigFile, text, write)
                           IN  /\ backupFile' = backed.file
                               /\ originalContent' =
                                     copied(gitConfigFile, backupFile,
                                            backed.file, backed.err)
                               /\ gitConfigFile' = wrote.file
                               /\ gitIdentity' = probe(wrote.file)
                               /\ IF wrote.err # NoError
                                  THEN /\ Current' = current
                                       /\ ret' = Return("runSwitch", profileName,
                                                        ErrWriteGit, gitConfigFile)
                                       /\ UNCHANGED <<configFile, saved>>
                                  ELSE /\ Current' = profileName
                                       /\ IF saves
                                          THEN /\ configFile' = YamlFile(
                                                     Marshal(global, profiles, profileName))
                                               /\ saved' = [ok |-> TRUE, Global |-> global,
                                                            Profiles |-> profiles,
                                                            Current |-> profileName]
                                               /\ ret' = Return("runSwitch", profileName,
                                                                NoError, gitConfigFile)
                                          ELSE /\ ret' = Return("runSwitch", profileName,
                                                                ErrSaveConfig, gitConfigFile)
                                               /\ UNCHANGED <<configFile, saved>>

\* the store file of the runs
SwitchStore ==
    [profiles |-> M([work |-> M([user |-> M([name |-> S("Work User"),
                                             email |-> S("work@example.com")])]),
                     personal |-> M([user |-> M([name |-> S("Test User")]),
                                     url |-> L(<<GenericRule(GitlabRule)>>)])])]

SwitchFilePool == {AbsentFile, MalformedFile, YamlFile(SwitchStore)}

\* the git config file a user has before the first switch, or none
SwitchGitFilePool == {NoFile, TextFile(OriginalText)}

NextSwitch ==
    \/ \E name \in ProfileNames : RunSwitch(name)
    \/ GitRestoreConfig
    \/ \E f \in SwitchGitFilePool : EditGitConfigFile(f)
    \/ \E f \in SwitchFilePool : EditConfigFile(f)

SpecSwitch == Init /\ [][NextSwitch]_vars

-----------------------------------------------------------------------------
(* runSwitch and the backup: C19, C20 *)

\* the step is a run of switch that wrote to the git config file
Overwrote ==
    /\ ret'.op = "runSwitch"
    /\ ret'.err \notin {ErrLoadConfig, ErrProfileNotFound}
    /\ ~(ret'.err = ErrWriteGit /\ gitConfigFile' = gitConfigFile)

\* C19: in every run of switch that overwrites an existing git config file
\* the backup file holds, when the file is overwritten, a full copy of what
\* the file held before the switch.
C19_BackupBeforeOverwrite ==
    [][Overwrote /\ gitConfigFile.kind = "file" =>
           backupFile' = TextFile(gitConfigFile.text)]_vars

\* what holds instead: the backup file holds that copy unless the backup
\* failed, and then it is as it was or cut short
C19_BackupUnlessItFailed ==
    [][Overwrote /\ gitConfigFile.kind = "file" =>
           backupFile' \in {TextFile(gitConfigFile.text), backupFile,
                            TextFile(<<>>)}]_vars

\* C20: after a switch, a restore from the backup file returns the git
\* config file to exactly what it held immediately before that switch.
C20_RestoreAfterSwitch ==
    [][/\ ret.op = "runSwitch" /\ ret.err = NoError /\ ret.val.kind = "file"
       /\ ret'.op = "RestoreConfig" /\ ret'.err = NoError
       => gitConfigFile' = ret.val]_vars

\* what holds instead: after a switch whose backup succeeded
C20_RestoreAfterBackedUpSwitch ==
    [][/\ ret.op = "runSwitch" /\ ret.err = NoError /\ ret.val.kind = "file"
       /\ originalContent = [ok |-> TRUE, text |-> ret.val.text]
       /\ ret'.op = "RestoreConfig" /\ ret'.err = NoError
       => gitConfigFile' = ret.val]_vars

-----------------------------------------------------------------------------
(* The switch command on a store with global settings                       *)

\* a store file in the layout of the README's example: global settings that
\* every profile inherits, and two profiles with their identities; the
\* user name of test is written with a leading blank
ApplyStore ==
    [global |-> M([alias |-> M([co |-> S("checkout")])]),
     profiles |-> M([work |-> M([user |-> M([name |-> S("Work User"),
                                             email |-> S("work@example.com")])]),
                     test |-> M([user |-> M([name |-> S(" Test User"),
                                             email |-> S("test@example.com")])])])]

\* the user has a store file and a git config file of their own
InitApply ==
    /\ Global = <<>>
    /\ Profiles = <<>>
    /\ Current = ""
    /\ ret = Return("NewConfig", "", NoError, "")
    /\ configFile = YamlFile(ApplyStore)
    /\ gitConfigFile = TextFile(OriginalText)
    /\ gitIdentity = probe(TextFile(OriginalText))
    /\ saved = NothingSaved
    /\ content = <<>>
    /\ config = <<>>
    /\ calls = <<>>
    /\ source = <<>>
    /\ builtFrom = <<>>
    /\ backupFile = NoFile
    /\ originalContent = NoBackup
    /\ commands = NoCommands

NextApply ==
    \/ \E name \in ProfileNames : RunSwitch(name)
    \/ LoadConfig

SpecApply == InitApply /\ [][NextApply]_vars

-----------------------------------------------------------------------------
(* What a switch leaves in the git config file: C21, C22 *)

\* the last operation was a switch that reported success
Switched == ret.op = "runSwitch" /\ ret.err = NoError

\* the effective profile of the switch: Merge of the profile switched to
Effective == mergedProfile(Global, Profiles[ret.name])

\* the git config file as git reads it
FileConfig == parseGitConfig(gitConfigFile.text)

\* the leaves of a section with their dotted keys below prefix
RECURSIVE LeavesOf(_, _)
LeavesOf(prefix, values) ==
    UNION {IF values[k].t = "map"
           THEN LeavesOf(prefix \o <<".">> \o Chars[k], values[k].v)
           ELSE {[key |-> prefix \o <<".">> \o Chars[k], value |-> values[k]]} :
           k \in DOMAIN values}

\* the file holds the leaves of the named sections of the effective profile
Holds(sections) ==
    \A i \in 1..Len(sections) :
       \A leaf \in LeavesOf(Chars[sections[i]], GetSection(Effective, sections[i])) :
          /\ leaf.key \in DOMAIN FileConfig
          /\ FileConfig[leaf.key] = fmtValue(leaf.value)

\* C21: after a successful switch to P, for every section S of
\* ConfigSections and every leaf key k of Merge(P)[S], set in P or inherited
\* from the global settings, the git config file holds S.k with that value.
C21_SwitchAppliesEffectiveProfile == Switched => Holds(ConfigSections)

\* a switch to work, which inherits alias.co
C21_Inherited ==
    /\ Switched /\ ret.name = "work"
    /\ Effective.Alias = [co |-> S("checkout")]

\* what git read from the file the switch found
PreviousConfig ==
    IF ret.val.kind = "file" THEN parseGitConfig(ret.val.text) ELSE <<>>

\* the keys of the flattened effective profile
EffectiveKeys == UNION {DOMAIN flat : flat \in profileToGitConfig(Effective)}

\* C22: after a successful switch to P the git config file holds only keys
\* of P's flattened effective profile, and no key of the file's previous
\* content remains unless the effective profile also defines it.
C22_SwitchWritesInFull ==
    Switched =>
       /\ DOMAIN FileConfig \subseteq EffectiveKeys
       /\ \A key \in DOMAIN PreviousConfig :
             key \in DOMAIN FileConfig => key \in EffectiveKeys

\* a switch over the user's own file: its key u.n is gone
C22_Witness ==
    /\ Switched
    /\ ret.val = TextFile(OriginalText)
    /\ <<"u", ".", "n">> \in DOMAIN PreviousConfig
    /\ <<"u", ".", "n">> \notin DOMAIN FileConfig
    /\ DOMAIN FileConfig # {}

-----------------------------------------------------------------------------
(* A switch to a profile that is not stored: C23 *)

\* the profiles a store file holds; a file that is missing or cannot be
\* read or parsed holds none
StoredProfiles(file) ==
    IF file.kind = "yaml" THEN UnmarshalProfiles(file.doc) ELSE <<>>

\* C23: a switch to a profile name that is not in the store fails, and the
\* git config file, the backup file and the store file are left unchanged.
C23_UnknownProfileChangesNothing ==
    [][ret'.op = "runSwitch" /\ ret'.name \notin DOMAIN StoredProfiles(configFile)
       => /\ ret'.err # NoError
          /\ gitConfigFile' = gitConfigFile
          /\ backupFile' = backupFile
          /\ configFile' = configFile]_vars

\* a switch to test, which the store does not hold, with a git config file
\* in place
C23_Witness ==
    /\ ret = Return("runSwitch", "test", ErrProfileNotFound, TextFile(OriginalText))
    /\ configFile = YamlFile(SwitchStore)
    /\ "work" \in DOMAIN Profiles
    /\ gitConfigFile = TextFile(OriginalText)

-----------------------------------------------------------------------------
(* The commands init, remove and add                                        *)

ErrConfirm == "failed to confirm removal"
ErrExists == "profile already exists"
ErrPrompt == "failed to get name"

\* an init that saves a new empty store instead of the one it loaded
initialConfigFresh(global, profiles) ==
    [Global |-> <<>>, Profiles |-> <<>>]

\* the store runInit saves: cfg as LoadConfig returned it
initialConfig(global, profiles) ==
    [Global |-> global, Profiles |-> profiles]

\* one run of `git-context init`; the store object of a command is gone
\* when the command returns
RunInit ==
    IF configFile.kind \in {"unreadable", "malformed"}
    THEN /\ ret' = Return("runInit", "", ErrLoadConfig, "")
         /\ UNCHANGED <<Global, Profiles, Current>>
         /\ UNCHANGED fileVars
    ELSE LET global == IF configFile.kind = "absent" THEN <<>>
                       ELSE UnmarshalGlobal(configFile.doc)
             profiles == IF configFile.kind = "absent" THEN <<>>
                         ELSE UnmarshalProfiles(configFile.doc)
             cfg == initialConfig(global, profiles)
         IN  \E current \in DOMAIN profiles \cup {""}, written \in BOOLEAN :
                /\ IF configFile.kind = "absent" THEN current = ""
                   ELSE determineCurrent(profiles, gitIdentity, current)
                /\ UNCHANGED <<Global, Profiles, Current>>
                /\ UNCHANGED <<gitIdentity, codecVars, gitVars, commands>>
                /\ IF Cardinality(DOMAIN profiles) > 0
                   THEN /\ ret' = Return("runInit", "", NoError, "")
                        /\ UNCHANGED <<configFile, saved>>
                   ELSE IF written
                        THEN /\ configFile' = YamlFile(
                                   Marshal(cfg.Global, cfg.Profiles, current))
                             /\ saved' = [ok |-> TRUE, Global |-> cfg.Global,
                                          Profiles |-> cfg.Profiles,
                                          Current |-> current]
                             /\ ret' = Return("runInit", "", NoError, "")
                        ELSE /\ ret' = Return("runInit", "", ErrSaveConfig, "")
                             /\ UNCHANGED <<configFile, saved>>

\* the answers to ui.PromptConfirm: Yes, No, or the prompt fails
Answers == {"yes", "no", "failed"}

\* a remove that goes on whatever the answer is
confirmAlways(answer) == TRUE

\* confirm, the result of the prompt: result == "Yes"
confirm(answer) == answer = "yes"

\* one run of `git-context remove profileName`; ret.val is the answer to
\* the prompt, when the run came to ask
RunRemove(profileName, answer) ==
    IF configFile.kind \in {"unreadable", "malformed"}
    THEN /\ ret' = Return("runRemove", profileName, ErrLoadConfig, "unasked")
         /\ UNCHANGED <<Global, Profiles, Current>>
         /\ UNCHANGED fileVars
    ELSE LET global == IF configFile.kind = "absent" THEN <<>>
                       ELSE UnmarshalGlobal(configFile.doc)
             profiles == IF configFile.kind = "absent" THEN <<>>
                         ELSE UnmarshalProfiles(configFile.doc)
             left == [n \in DOMAIN profiles \ {profileName} |-> profiles[n]]
         IN  \E current \in DOMAIN profiles \cup {""}, written \in BOOLEAN :
                /\ IF configFile.kind = "absent" THEN current = ""
                   ELSE determineCurrent(profiles, gitIdentity, current)
                /\ UNCHANGED <<Global, Profiles, Current>>
                /\ UNCHANGED <<gitIdentity, codecVars, gitVars, commands>>
                /\ CASE getProfile(profiles, profileName).err # NoError ->
                          /\ ret' = Return("runRemove", profileName,
                                           ErrProfileNotFound, "unasked")
                          /\ UNCHANGED <<configFile, saved>>
                     [] answer = "failed" ->
                          /\ ret' = Return("runRemove", profileName,
                                           ErrConfirm, answer)
                          /\ UNCHANGED <<configFile, saved>>
                     [] ~confirm(answer) ->
                          /\ ret' = Return("runRemove", profileName,
                                           NoError, answer)
                          /\ UNCHANGED <<configFile, saved>>
                     [] OTHER ->
                          /\ IF written
                             THEN /\ configFile' = YamlFile(
                                        Marshal(global, left, current))
                                  /\ saved' = [ok |-> TRUE, Global |-> global,
                                               Profiles |-> left,
                                               Current |-> current]
                                  /\ ret' = Return("runRemove", profileName,
                                                   NoError, answer)
                             ELSE /\ ret' = Return("runRemove", profileName,
                                                   ErrSaveConfig, answer)
                                  /\ UNCHANGED <<configFile, saved>>

\* a save that reads the file again and adds to what it holds now
storeToSaveReloaded(profiles, onDisk) == mapsCopy(onDisk, profiles)

\* what SaveConfig marshals: c, the store the command holds in memory; the
\* file on disk is not read again
storeToSave(profiles, onDisk) == profiles

\* runAdd up to its first prompt, in the shell sh: LoadConfig and the check
\* that the name is free; ret.val is the shell
AddLoad(sh, profileName) ==
    /\ commands[sh].pc # "prompting"
    /\ UNCHANGED <<Global, Profiles, Current, configFile, gitIdentity, saved>>
    /\ UNCHANGED <<codecVars, gitVars>>
    /\ IF configFile.kind \in {"unreadable", "malformed"}
       THEN /\ ret' = Return("runAdd", profileName, ErrLoadConfig, sh)
            /\ commands' = [commands EXCEPT ![sh] = Idle]
       ELSE LET global == IF configFile.kind = "absent" THEN <<>>
                          ELSE UnmarshalGlobal(configFile.doc)
                profiles == IF configFile.kind = "absent" THEN <<>>
                            ELSE UnmarshalProfiles(configFile.doc)
            IN  IF getProfile(profiles, profileName).err = NoError
                THEN /\ ret' = Return("runAdd", profileName, ErrExists, sh)
                     /\ commands' = [commands EXCEPT ![sh] = Idle]
                ELSE /\ ret' = Return("runAdd: prompts", profileName, NoError, sh)
                     /\ commands' = [commands EXCEPT ![sh] =
                                        [pc |-> "prompting", name |-> profileName,
                                         Global |-> global, Profiles |-> profiles,
                                         err |-> NoError]]

\* runAdd from its prompts on: the answers make the profile, or a prompt
\* fails; AddProfile on the store loaded before, then SaveConfig
AddSave(sh, profile, answered) ==
    /\ commands[sh].pc = "prompting"
    /\ UNCHANGED <<Global, Profiles, Current, gitIdentity>>
    /\ UNCHANGED <<codecVars, gitVars>>
    /\ LET mine == commands[sh]
           onDisk == IF configFile.kind = "yaml"
                     THEN UnmarshalProfiles(configFile.doc) ELSE <<>>
           added == mapsCopy(mine.Profiles, mine.name :> profile)
           toSave == storeToSave(added, onDisk)
       IN  IF ~answered
           THEN /\ ret' = Return("runAdd", mine.name, ErrPrompt, sh)
                /\ commands' = [commands EXCEPT ![sh] = Idle]
                /\ UNCHANGED <<configFile, saved>>
           ELSE \E written \in BOOLEAN :
                   IF written
                   THEN /\ configFile' = YamlFile(Marshal(mine.Global, toSave, ""))
                        /\ saved' = [ok |-> TRUE, Global |-> mine.Global,
                                     Profiles |-> toSave, Current |-> ""]
                        /\ ret' = Return("runAdd", mine.name, NoError, sh)
                        /\ commands' = [commands EXCEPT ![sh].pc = "done"]
                   ELSE /\ ret' = Return("runAdd", mine.name, ErrSaveConfig, sh)
                        /\ commands' = [commands EXCEPT ![sh] = Idle]
                        /\ UNCHANGED <<configFile, saved>>

\* the names the commands are given
CommandNames == {"work", "personal"}

\* the profile the prompts of add are answered with
PromptedProfile ==
    [EmptyProfile EXCEPT !.User = UserConfig("Work User", "work@example.com", "")]

\* a store file with global settings and no profile
GlobalOnly ==
    [global |-> M([core |-> M([editor |-> S("nano")])])]

CommandFilePool == {AbsentFile, MalformedFile, YamlFile(GlobalOnly)}

NextCommands ==
    \/ RunInit
    \/ \E name \in CommandNames, answer \in Answers : RunRemove(name, answer)
    \/ \E sh \in Shells, name \in CommandNames : AddLoad(sh, name)
    \/ \E sh \in Shells, answered \in BOOLEAN :
          AddSave(sh, PromptedProfile, answered)
    \/ \E f \in CommandFilePool : EditConfigFile(f)

SpecCommands == Init /\ [][NextCommands]_vars

-----------------------------------------------------------------------------
(* init: C24 *)

\* the global settings and the profiles a store file holds, read off the
\* document
GlobalIn(file) ==
    IF file.kind = "yaml" /\ "global" \in DOMAIN file.doc
    THEN file.doc["global"].v ELSE <<>>

ProfilesIn(file) ==
    IF file.kind = "yaml" /\ "profiles" \in DOMAIN file.doc
    THEN file.doc["profiles"].v ELSE <<>>

C24_WitnessProfiles ==
    /\ ret = Return("runInit", "", NoError, "")
    /\ "work" \in DOMAIN ProfilesIn(configFile)
    /\ GlobalIn(configFile) = GlobalOnly.global.v

-----------------------------------------------------------------------------
(* remove: C25 *)

\* C25: a run of remove changes the store file only when the named profile
\* exists and the prompt is answered yes; when the profile is unknown, the
\* prompt fails or the answer is no, the store file is left unchanged.
C25_RemoveRequiresConfirmation ==
    [][ret'.op = "runRemove" =>
          /\ (configFile' # configFile =>
                 /\ ret'.name \in DOMAIN ProfilesIn(configFile)
                 /\ ret'.val = "yes")
          /\ (\/ ret'.name \notin DOMAIN ProfilesIn(configFile)
              \/ ret'.val \in {"no", "failed", "unasked"}
              => configFile' = configFile)]_vars

\* the answer was no and the profile is still stored
C25_Witness ==
    /\ ret = Return("runRemove", "work", NoError, "no")
    /\ "work" \in DOMAIN ProfilesIn(configFile)

\* the answer was yes and the profile is gone, the other one kept
C25_WitnessRemoved ==
    /\ ret = Return("runRemove", "work", NoError, "yes")
    /\ DOMAIN ProfilesIn(configFile) = {"personal"}

-----------------------------------------------------------------------------
(* Two add commands on one store file: C26 *)

\* both shells have reported success for distinct names, and each command
\* loaded the file before the other saved: neither saw the other's profile
AddsRaced ==
    /\ \A sh \in Shells : commands[sh].pc = "done" /\ commands[sh].err = NoError
    /\ commands["first"].name # commands["second"].name
    /\ commands["first"].name \notin DOMAIN commands["second"].Profiles
    /\ commands["second"].name \notin DOMAIN commands["first"].Profiles

\* C26: when two add commands for distinct names have each loaded the file
\* before the other saved and both have reported success, the file holds
\* the last writer's profile and not the other one.
C26_RaceLosesAWrite ==
    AddsRaced /\ ret.op = "runAdd" =>
       LET last == ret.val
           other == CHOOSE sh \in Shells : sh # last
       IN  /\ commands[last].name \in DOMAIN ProfilesIn(configFile)
           /\ commands[other].name \notin DOMAIN ProfilesIn(configFile)

\* the interleaving: both commands loaded the missing file, both saved, and
\* the file holds the second writer's profile alone
C26_Witness ==
    /\ AddsRaced
    /\ ret = Return("runAdd", "personal", NoError, "second")
    /\ commands["first"].name = "work"
    /\ commands["first"].Profiles = <<>>
    /\ commands["second"].Profiles = <<>>
    /\ DOMAIN ProfilesIn(configFile) = {"personal"}

-----------------------------------------------------------------------------
(* The active profile after a load: C27, C28 *)

\* the last operation was a LoadConfig that returned a store
Loaded == ret.op = "LoadConfig" /\ ret.err = NoError

\* both probes of the git identity succeeded
Probed == gitIdentity.nameOk /\ gitIdentity.emailOk

\* the stored profile has exactly the probed user name and email
HasProbedIdentity(n) ==
    /\ Profiles[n].User.Name = gitIdentity.name
    /\ Profiles[n].User.Email = gitIdentity.email

\* C27: after Load the active profile name is empty or the name of a stored
\* profile whose user name and email both equal the probed identity; it is
\* empty when a probe fails or no profile matches, and non-empty whenever
\* the probes succeed and at least one profile matches.
C27_CurrentMatchesProbedIdentity ==
    Loaded =>
       /\ \/ Current = ""
          \/ /\ Current \in DOMAIN Profiles
             /\ Probed
             /\ HasProbedIdentity(Current)
       /\ (~Probed \/ ~(\E n \in DOMAIN Profiles : HasProbedIdentity(n))
              => Current = "")
       /\ (Probed /\ (\E n \in DOMAIN Profiles : HasProbedIdentity(n))
              => Current # "")

\* a load that found the probed identity in the store
C27_Witness ==
    /\ Loaded
    /\ gitIdentity = Identity(TRUE, "Work User", TRUE, "work@example.com")
    /\ Current \in {"work", "twin"}
    /\ HasProbedIdentity(Current)

\* a load with a profile of the probed name and another email
C27_WitnessNameOnly ==
    /\ Loaded
    /\ gitIdentity = Identity(TRUE, "Test User", TRUE, "work@example.com")
    /\ "personal" \in DOMAIN Profiles
    /\ Profiles["personal"].User.Name = "Test User"
    /\ Current = ""

\* the profile switched to has a user name and an email, and no other
\* profile of the store has both
OwnIdentity ==
    LET p == Profiles[ret.name]
    IN  /\ p.User.Name # ""
        /\ p.User.Email # ""
        /\ \A n \in DOMAIN Profiles \ {ret.name} :
              ~(/\ Profiles[n].User.Name = p.User.Name
                /\ Profiles[n].User.Email = p.User.Email)

\* git reads the value back as it was written: no blank at either end, no
\* line break and no character that git gives a meaning of its own
ReadBackAsWritten(str) ==
    LET cs == Chars[str]
    IN  /\ TrimSpace(cs) = cs
        /\ \A i \in 1..Len(cs) : cs[i] \notin {"#", ";", "\"", "\\", "\n"}

\* C28: after a successful switch to P whose user name and email are both
\* non-empty and not shared by any other profile, the next Load of the
\* store determines P as the active profile.
C28_SwitchThenLoad ==
    [][Switched /\ OwnIdentity /\ ret'.op = "LoadConfig"
       => Current' = ret.name]_vars

\* what holds instead: the same for a user name and an email that git
\* reads back as they were written
C28_SwitchThenLoadReadBack ==
    [][/\ Switched /\ OwnIdentity
       /\ ReadBackAsWritten(Profiles[ret.name].User.Name)
       /\ ReadBackAsWritten(Profiles[ret.name].User.Email)
       /\ ret'.op = "LoadConfig"
       => Current' = ret.name]_vars

\* a load after the switch to work has found work active
C28_LoadedAfterSwitch ==
    /\ Loaded
    /\ Current = "work"
    /\ gitIdentity = probe(gitConfigFile)
    /\ gitIdentity = Identity(TRUE, "Work User", TRUE, "work@example.com")
    /\ saved.ok /\ saved.Current = "work"

-----------------------------------------------------------------------------
(* profileToGitConfig on its own                                            *)

\* a second rule for the pattern of GithubRule
GithubGitRule == URLConfig("ssh://git@github.com/", "git://github.com/")

FlattenUsers ==
    {UserConfig(name, email, key) :
        name \in {"", "Test User"}, email \in {"", "test@example.com"},
        key \in {"", "ABCD1234"}}

FlattenURLs ==
    {<<>>, <<GithubRule>>, <<GithubRule, GitlabRule>>,
     <<GithubRule, GithubGitRule>>}

\* sections as the tests set them: flat, nested, nested three deep, and a
\* section that is not passed on
FlattenSections ==
    { EmptyProfile,
      [EmptyProfile EXCEPT !.Core = [editor |-> S("nano")],
                           !.Push = [default |-> S("simple")]],
      [EmptyProfile EXCEPT !.Add = [interactive |-> M([useBuiltin |-> B("false")])],
                           !.Alias = [co |-> S("checkout")]],
      [EmptyProfile EXCEPT
          !.Delta = [navigate |-> B("true"),
                     level1 |-> M([level2 |-> M([level3 |-> S("deepvalue")])])]] }

FlattenPool ==
    {[sections EXCEPT !.User = user, !.URL = url] :
        sections \in FlattenSections, user \in FlattenUsers, url \in FlattenURLs}

\* the profile handed to profileToGitConfig is the one stored as merged
InitFlatten ==
    /\ Global = <<>>
    /\ Profiles \in {[merged |-> p] : p \in FlattenPool}
    /\ Current = ""
    /\ ret = Return("NewConfig", "", NoError, "")
    /\ configFile = AbsentFile
    /\ gitIdentity = Identity(FALSE, "", FALSE, "")
    /\ saved = NothingSaved
    /\ content = <<>>
    /\ config = <<>>
    /\ calls = <<>>
    /\ source = <<>>
    /\ builtFrom = <<>>
    /\ gitConfigFile = NoFile
    /\ backupFile = NoFile
    /\ originalContent = NoBackup
    /\ commands = NoCommands

\* gitConfig := profileToGitConfig(mergedProfile)
ProfileToGitConfig ==
    /\ calls = <<>>
    /\ config' \in profileToGitConfig(Profiles["merged"])
    /\ calls' = <<"profileToGitConfig">>
    /\ ret' = Return("profileToGitConfig", "merged", NoError, "")
    /\ UNCHANGED <<Global, Profiles, Current, configFile, gitIdentity, saved>>
    /\ UNCHANGED <<content, source, builtFrom, gitVars, commands>>

NextFlatten == ProfileToGitConfig

SpecFlatten == InitFlatten /\ [][NextFlatten]_vars

-----------------------------------------------------------------------------
(* The entries of the flattened profile: C29 *)

Flattened == calls = <<"profileToGitConfig">>

\* the key section.leaf
DotKey(section, leaf) == Chars[section] \o <<".">> \o Chars[leaf]

\* the key url "pattern".insteadOf
RewriteKey(pattern) ==
    <<"u", "r", "l", " ", "\"">> \o Chars[pattern] \o <<"\"", ".">>
        \o Chars["insteadOf"]

\* config holds key exactly when the field is non-empty, and then the field
UserEntry(leaf, field) ==
    /\ DotKey("user", leaf) \in DOMAIN config <=> field # ""
    /\ field # "" => config[DotKey("user", leaf)] = Chars[field]

UserEntries ==
    LET user == Profiles["merged"].User
    IN  /\ UserEntry("name", user.Name)
        /\ UserEntry("email", user.Email)
        /\ UserEntry("signingkey", user.SigningKey)

\* every leaf of every section passed on has its dotted key and its value
SectionEntries ==
    \A i \in 1..Len(AppliedSections) :
       \A leaf \in LeavesOf(Chars[AppliedSections[i]],
                            GetSection(Profiles["merged"], AppliedSections[i])) :
          /\ leaf.key \in DOMAIN config
          /\ config[leaf.key] = fmtValue(leaf.value)

\* C29: the flattened profile has user.name, user.email and user.signingkey
\* exactly when the field is non-empty; for every URL rewrite rule of the
\* list the key url "pattern".insteadOf mapped to that rule's insteadOf; and
\* for every leaf at a nested path of a flattened section the key
\* section.k1...kn mapped to the leaf value.
C29_FlattenEmitsEveryEntry ==
    Flattened =>
       /\ UserEntries
       /\ \A i \in 1..Len(Profiles["merged"].URL) :
             LET rule == Profiles["merged"].URL[i]
             IN  /\ RewriteKey(rule.Pattern) \in DOMAIN config
                 /\ config[RewriteKey(rule.Pattern)] = Chars[rule.InsteadOf]
       /\ SectionEntries

\* what holds instead: of the rules that share a pattern the last one is
\* the one the key is mapped to
C29_FlattenKeepsLastRule ==
    Flattened =>
       /\ UserEntries
       /\ \A i \in 1..Len(Profiles["merged"].URL) :
             LET url == Profiles["merged"].URL
             IN  /\ RewriteKey(url[i].Pattern) \in DOMAIN config
                 /\ (\A j \in (i + 1)..Len(url) : url[j].Pattern # url[i].Pattern)
                       => config[RewriteKey(url[i].Pattern)] = Chars[url[i].InsteadOf]
       /\ SectionEntries

\* a profile with every kind of entry has been flattened
C29_Flattened ==
    /\ Flattened
    /\ Profiles["merged"].User = UserConfig("Test User", "test@example.com", "ABCD1234")
    /\ Profiles["merged"].URL = <<GithubRule, GitlabRule>>
    /\ DotKey("delta", "level1") \o <<".">> \o Chars["level2"] \o <<".">>
          \o Chars["level3"] \in DOMAIN config

-----------------------------------------------------------------------------
(* SetSection and GetSection on their own                                   *)

\* the names of ConfigSections, the other yaml keys of a profile, and a
\* name that is no key at all
SectionNames ==
    {ConfigSections[i] : i \in 1..Len(ConfigSections)}
        \cup {"custom", "user", "url", "nonexistent"}

\* the values of the tests: a section, a nested section, and nil
SectionValues ==
    {<<>>,
     [editor |-> S("vim"), pager |-> S("less")],
     [interactive |-> M([useBuiltin |-> B("false")])]}

InitSections ==
    /\ Global = <<>>
    /\ Profiles \in {[profile |-> p] : p \in ProfilePool}
    /\ Current = ""
    /\ ret = Return("NewConfig", "", NoError, "")
    /\ configFile = AbsentFile
    /\ gitIdentity = Identity(FALSE, "", FALSE, "")
    /\ saved = NothingSaved
    /\ content = <<>>
    /\ config = <<>>
    /\ calls = <<>>
    /\ source = <<>>
    /\ builtFrom = <<>>
    /\ gitConfigFile = NoFile
    /\ backupFile = NoFile
    /\ originalContent = NoBackup
    /\ commands = NoCommands

\* profile.SetSection(name, values)
ProfileSetSection(name, values) ==
    /\ calls = <<>>
    /\ Profiles' = [profile |-> SetSection(Profiles["profile"], name, values)]
    /\ calls' = <<"SetSection">>
    /\ ret' = Return("SetSection", name, NoError, values)
    /\ UNCHANGED <<Global, Current, configFile, gitIdentity, saved>>
    /\ UNCHANGED <<content, config, source, builtFrom, gitVars, commands>>

\* profile.GetSection(name)
ProfileGetSection(name) ==
    /\ calls = <<"SetSection">>
    /\ calls' = <<"SetSection", "GetSection">>
    /\ ret' = Return("GetSection", name, NoError,
                     GetSection(Profiles["profile"], name))
    /\ UNCHANGED <<Global, Profiles, Current, configFile, gitIdentity, saved>>
    /\ UNCHANGED <<content, config, source, builtFrom, gitVars, commands>>

NextSections ==
    \/ \E name \in SectionNames, values \in SectionValues :
          ProfileSetSection(name, values)
    \/ \E name \in SectionNames : ProfileGetSection(name)

SpecSections == InitSections /\ [][NextSections]_vars

-----------------------------------------------------------------------------
(* SetSection followed by GetSection: C30 *)

IsConfigSection(name) ==
    \E i \in 1..Len(ConfigSections) : ConfigSections[i] = name

\* C30: for every name of ConfigSections, SetSection(name, v) followed by
\* GetSection(name) returns v, and SetSection leaves every other section,
\* the user record, the URL list and the custom section unchanged; for a
\* name not in ConfigSections SetSection changes nothing and GetSection
\* returns nil.
C30_SetThenGetSection ==
    [][/\ (ret'.op = "SetSection" =>
              LET before == Profiles["profile"]
                  after == Profiles'["profile"]
              IN  IF IsConfigSection(ret'.name)
                  THEN /\ \A f \in DOMAIN before :
                             f # FieldOf[ret'.name] => after[f] = before[f]
                       /\ after.User = before.User
                       /\ after.URL = before.URL
                       /\ after.Custom = before.Custom
                  ELSE after = before)
       /\ (ret.op = "SetSection" /\ ret'.op = "GetSection"
              /\ ret'.name = ret.name /\ IsConfigSection(ret.name)
              => ret'.val = ret.val)
       /\ (ret'.op = "GetSection" /\ ~IsConfigSection(ret'.name)
              => ret'.val = <<>>)]_vars

\* pull was set on a profile with other sections and read back
C30_Witness ==
    /\ calls = <<"SetSection", "GetSection">>
    /\ ret = Return("GetSection", "pull", NoError,
                    [editor |-> S("vim"), pager |-> S("less")])
    /\ Profiles["profile"].Push = [default |-> S("current")]
    /\ Profiles["profile"].URL = <<GithubRule>>

====
